---- MODULE Spec2Model ----
(***************************************************************************)
(* Model of the budget projection engine (src/src/engine/projection.ts)    *)
(* of student-budget-visualizer.                                           *)
(*                                                                         *)
(* Dates.  A JavaScript Date is modelled as [day, hour]: the number of the *)
(* local calendar day (day 0 is 2024-01-01, a Monday) and the hour inside  *)
(* it.  An ISO date string 'yyyy-MM-dd' is modelled as the triple          *)
(* <<y, m, d>>.  The calendar is the Gregorian one, valid for 2024..2025.  *)
(*                                                                         *)
(* Money.  A JavaScript number holding dollars is modelled as an exact     *)
(* integer count of units, UnitsPerCent units to the cent, so that the     *)
(* divisions the engine makes (/7, /mpg, *52/12) are exact on the inputs   *)
(* the model draws.  Binary floating-point representation error is not     *)
(* modelled.                                                               *)
(***************************************************************************)
EXTENDS Integers, Sequences, FiniteSets, TLC

VARIABLES
    clock,          \* the wall clock: a Date [day, hour]
    config,         \* the BudgetConfig handed to runProjection
    pc,             \* "idle" | "loop" | "done" | "threw": position of runProjection
    calls,          \* number of runProjection invocations started
    today,          \* runProjection local: startOfDay(new Date())
    totalDays,      \* runProjection local
    i,              \* runProjection local: loop counter
    balance,        \* runProjection local: running balance (unrounded)
    incomeToday,    \* loop-body local of the last iteration (unrounded)
    expensesToday,  \* loop-body local of the last iteration (unrounded)
    snapshots,      \* runProjection local: the array being built / returned
    firstResult,    \* history: the array returned by the first invocation
    ticks,          \* history: number of clock advances so far
    hasUserEdits,   \* the store's hasUserEdits flag (config is the store's BudgetConfig)
    memoDeps,       \* useProjection: the config its memoised snapshots were computed for
    dataLength,     \* useChartFadeTransition: the dataLength prop of the last render
    prevLengthRef,  \* useChartFadeTransition: prevLengthRef.current
    fading,         \* useChartFadeTransition: the fading state
    chartKey,       \* useChartFadeTransition: the chartKey state
    fadeTimers,     \* useChartFadeTransition: number of its timeouts still pending
    mounted,        \* useChartFadeTransition: the component is mounted
    lengthChanges,  \* history: number of dataLength changes so far
    domainFingerprint, \* useYAxisGlow: the domainFingerprint prop of the last render
    disabled,       \* useYAxisGlow: the disabled prop of the last render
    glowing,        \* useYAxisGlow: the glowing state
    prevRef,        \* useYAxisGlow: prevRef.current
    isFirstRender,  \* useYAxisGlow: isFirstRender.current
    timerRef,       \* useYAxisGlow: timerRef.current (0 is undefined)
    glowTimers,     \* useYAxisGlow: the ids of its timeouts still pending
    outerFrames,    \* useYAxisGlow: outer requestAnimationFrame callbacks pending
    innerFrames,    \* useYAxisGlow: inner requestAnimationFrame callbacks pending
    lastChange,     \* history: how the last domain change was processed
    glowMounted,    \* useYAxisGlow: the component is mounted
    domainChanges,  \* history: number of domain changes so far
    sampled         \* CashBalanceChart: the down-sampled series of its last render

\* the state of useChartFadeTransition
fadeVars == <<dataLength, prevLengthRef, fading, chartKey, fadeTimers, mounted, lengthChanges>>

\* the state of useYAxisGlow
glowVars == <<domainFingerprint, disabled, glowing, prevRef, isFirstRender, timerRef,
              glowTimers, outerFrames, innerFrames, lastChange, glowMounted, domainChanges>>

vars == <<clock, config, pc, calls, today, totalDays, i, balance,
          incomeToday, expensesToday, snapshots, firstResult, ticks, hasUserEdits,
          memoDeps, fadeVars, glowVars, sampled>>

\* null / undefined: a record no value of the program is equal to
Null == [null |-> TRUE]

(***************************************************************************)
(* Bounds of the model.                                                    *)
(***************************************************************************)
MaxMonths == 2
MaxTicks == 2
MaxCalls == 2

(***************************************************************************)
(* Calendar (what date-fns computes on local dates).                       *)
(***************************************************************************)
Years == 2024..2025

IsLeap(y) == (y % 4 = 0 /\ y % 100 # 0) \/ y % 400 = 0

DaysInMonth(y, m) ==
    IF m = 2 THEN (IF IsLeap(y) THEN 29 ELSE 28)
    ELSE IF m \in {4, 6, 9, 11} THEN 30 ELSE 31

RECURSIVE DaysBeforeYear(_)
DaysBeforeYear(y) ==
    IF y <= 2024 THEN 0
    ELSE DaysBeforeYear(y - 1) + (IF IsLeap(y - 1) THEN 366 ELSE 365)

RECURSIVE DaysBeforeMonth(_, _)
DaysBeforeMonth(y, m) ==
    IF m <= 1 THEN 0 ELSE DaysBeforeMonth(y, m - 1) + DaysInMonth(y, m - 1)

\* all calendar dates of the modelled years
AllDates == {<<y, m, d>> \in Years \X (1..12) \X (1..31) : d <= DaysInMonth(y, m)}

\* day number of each calendar date <<y, m, d>>
DayNumOf == [ymd \in AllDates |->
                DaysBeforeYear(ymd[1]) + DaysBeforeMonth(ymd[1], ymd[2]) + (ymd[3] - 1)]

\* calendar date <<y, m, d>> of each day number
DateOf == [n \in 0..(Cardinality(AllDates) - 1) |-> CHOOSE ymd \in AllDates : DayNumOf[ymd] = n]

ToDayNum(ymd) == DayNumOf[ymd]

FromDayNum(n) == DateOf[n]

Min(a, b) == IF a < b THEN a ELSE b

\* date-fns startOfDay: the same day at 00:00
startOfDay(date) == [day |-> date.day, hour |-> 0]

\* date-fns parseISO of a 'yyyy-MM-dd' string: local midnight of that day
parseISO(str) == [day |-> ToDayNum(str), hour |-> 0]

\* date-fns format(date, 'yyyy-MM-dd')
format(date) == FromDayNum(date.day)

\* date-fns addDays: same time of day, amount days later
addDays(date, amount) == [day |-> date.day + amount, hour |-> date.hour]

\* date-fns addMonths: same day-of-month amount months later, clamped to the
\* last day of the target month
addMonths(date, amount) ==
    LET ymd == FromDayNum(date.day)
        mi  == (ymd[1] * 12 + (ymd[2] - 1)) + amount
        y   == mi \div 12
        m   == (mi % 12) + 1
        d   == Min(ymd[3], DaysInMonth(y, m))
    IN  [day |-> ToDayNum(<<y, m, d>>), hour |-> date.hour]

\* date-fns differenceInCalendarDays(later, earlier)
differenceInCalendarDays(later, earlier) == later.day - earlier.day

\* date-fns getDate: the day of the month
getDate(date) == FromDayNum(date.day)[3]

\* Date.getDay: 0 = Sunday .. 6 = Saturday
getDay(date) == (date.day + 1) % 7

\* date-fns isWeekend
isWeekend(date) == getDay(date) \in {0, 6}

\* JavaScript's > on two Dates compares their timestamps
DateAfter(a, b) == a.day > b.day \/ (a.day = b.day /\ a.hour > b.hour)

(***************************************************************************)
(* Money.                                                                  *)
(***************************************************************************)
UnitsPerCent == 8 * 3 * 7

Cents(c) == c * UnitsPerCent

\* The three non-finite values of a JavaScript number, held as reserved
\* integers outside the range of the amounts the model computes.
Infinity == 2147483647

NegInfinity == -Infinity

NaN == Infinity - 1

IsFinite(x) == x \notin {NaN, Infinity, NegInfinity}

\* JavaScript's + on two numbers
JsAdd(a, b) ==
    IF a = NaN \/ b = NaN THEN NaN
    ELSE IF IsFinite(a) /\ IsFinite(b) THEN a + b
    ELSE IF IsFinite(a) THEN b
    ELSE IF IsFinite(b) THEN a
    ELSE IF a = b THEN a
    ELSE NaN

\* unary minus
JsNeg(a) == IF a = NaN THEN NaN ELSE -a

\* JavaScript's - on two numbers
JsSub(a, b) == JsAdd(a, JsNeg(b))

\* Math.round on a value held in cents: the nearest integer, a tie (x.5)
\* going towards +Infinity; a non-finite value is returned as it is
MathRound(x) == IF IsFinite(x) THEN (x + (UnitsPerCent \div 2)) \div UnitsPerCent ELSE x

\* Math.round(x * 100) / 100
Round2(x) == IF IsFinite(x) THEN MathRound(x) * UnitsPerCent ELSE x

(***************************************************************************)
(* Optional fields.  A rule record carries the field enabled (resp.        *)
(* endDate) only when the JavaScript object has it.                        *)
(***************************************************************************)
Has(r, f) == f \in DOMAIN r

\* variant: a missing enabled field counts as disabled (!rule.enabled)
EnabledIsFalse_Falsy(rule) == IF Has(rule, "enabled") THEN rule.enabled = FALSE ELSE TRUE

\* rule.enabled === false
EnabledIsFalse(rule) == Has(rule, "enabled") /\ rule.enabled = FALSE

(***************************************************************************)
(* paycheckAmount                                                          *)
(***************************************************************************)
\* variant: a month is taken as four weeks
paycheckAmount_FourWeekMonth(income) ==
    CASE income.frequency = "weekly"   -> income.hoursPerWeek * income.hourlyRate
      [] income.frequency = "biweekly" -> income.hoursPerWeek * income.hourlyRate * 2
      [] income.frequency = "monthly"  -> income.hoursPerWeek * income.hourlyRate * 4
      [] OTHER                         -> 0

paycheckAmount(income) ==
    CASE income.frequency = "weekly"   -> income.hoursPerWeek * income.hourlyRate
      [] income.frequency = "biweekly" -> income.hoursPerWeek * income.hourlyRate * 2
      [] income.frequency = "monthly"  -> (income.hoursPerWeek * income.hourlyRate * 52) \div 12
      [] OTHER                         -> 0

(***************************************************************************)
(* isPayday                                                                *)
(***************************************************************************)
\* variant: a monthly anchor past the month's end is clamped to the last day
FrequencyTest_ClampMonthly(frequency, daysDiff, current, anchor) ==
    CASE frequency = "weekly"   -> daysDiff % 7 = 0
      [] frequency = "biweekly" -> daysDiff % 14 = 0
      [] frequency = "monthly"  ->
            LET ymd == format(current)
            IN  getDate(current) = Min(getDate(anchor), DaysInMonth(ymd[1], ymd[2]))
      [] OTHER                  -> FALSE

FrequencyTest(frequency, daysDiff, current, anchor) ==
    CASE frequency = "weekly"   -> daysDiff % 7 = 0
      [] frequency = "biweekly" -> daysDiff % 14 = 0
      [] frequency = "monthly"  -> getDate(current) = getDate(anchor)
      [] OTHER                  -> FALSE

\* variant: the end date itself already counts as past the end
AfterEndDate_Exclusive(current, income) ==
    /\ Has(income, "endDate")
    /\ ~DateAfter(startOfDay(parseISO(income.endDate)), current)

AfterEndDate(current, income) ==
    /\ Has(income, "endDate")
    /\ DateAfter(current, startOfDay(parseISO(income.endDate)))

\* variant: the daysDiff < 0 guard is missing
isPayday_NoStartGuard(date, income) ==
    LET anchor   == startOfDay(parseISO(income.startDate))
        current  == startOfDay(date)
        daysDiff == differenceInCalendarDays(current, anchor)
    IN  IF AfterEndDate(current, income) THEN FALSE
        ELSE FrequencyTest(income.frequency, daysDiff, current, anchor)

isPayday(date, income) ==
    LET anchor   == startOfDay(parseISO(income.startDate))
        current  == startOfDay(date)
        daysDiff == differenceInCalendarDays(current, anchor)
    IN  IF daysDiff < 0 THEN FALSE
        ELSE IF AfterEndDate(current, income) THEN FALSE
        ELSE FrequencyTest(income.frequency, daysDiff, current, anchor)

(***************************************************************************)
(* The body of runProjection's loop.  acc holds the loop body's locals     *)
(* [incomeToday, expensesToday, events].                                   *)
(***************************************************************************)
EmptyAcc == [incomeToday |-> 0, expensesToday |-> 0, events |-> <<>>]

\* variant: the weekend total is charged on every day of the week
FoodBudgetCost_WeekendEveryDay(foodBudget, weekend) ==
    IF foodBudget.enabled THEN foodBudget.weekendDailyTotal ELSE 0

\* -- Food budget --
FoodBudgetCost(foodBudget, weekend) ==
    IF foodBudget.enabled
    THEN IF weekend
         THEN foodBudget.weekendDailyTotal
         ELSE foodBudget.weekdayBreakfast + foodBudget.weekdayLunch
              + foodBudget.weekdayDinner + foodBudget.weekdaySnacks
    ELSE 0

\* variant: only autoMpg = 0 is guarded against
AutoCost_NonZeroMpg(tc, weekend) ==
    IF tc.autoEnabled /\ tc.autoMpg # 0
    THEN LET miles == IF weekend THEN tc.autoWeekendMiles ELSE tc.autoWeekdayMiles
         IN  (miles * tc.autoFuelCostPerGallon) \div tc.autoMpg
    ELSE 0

\* -- Transport costs: the auto part; miles / autoMpg * autoFuelCostPerGallon
AutoCost(tc, weekend) ==
    IF tc.autoEnabled /\ tc.autoMpg > 0
    THEN LET miles == IF weekend THEN tc.autoWeekendMiles ELSE tc.autoWeekdayMiles
         IN  (miles * tc.autoFuelCostPerGallon) \div tc.autoMpg
    ELSE 0

\* -- Transport costs: the public part, spread evenly across 7 days
PublicCost(tc) ==
    IF tc.publicEnabled THEN tc.publicWeeklyCost \div 7 ELSE 0

TransportCost(tc, weekend) ==
    IF tc.enabled THEN AutoCost(tc, weekend) + PublicCost(tc) ELSE 0

\* variant: the paycheck carries the bare label of the income
PaycheckEvent_BareLabel(income, amount) ==
    [label |-> income.label, amount |-> amount, type |-> "income"]

\* -- Recurring income --
PaycheckEvent(income, amount) ==
    [label |-> <<income.label, " paycheck">>, amount |-> amount, type |-> "income"]

RecurringIncomeStep(acc, income, date) ==
    IF EnabledIsFalse(income) THEN acc
    ELSE IF isPayday(date, income)
         THEN LET amount == paycheckAmount(income)
              IN  [acc EXCEPT !.incomeToday = @ + amount,
                              !.events = Append(@, PaycheckEvent(income, amount))]
         ELSE acc

\* variant: the amount replaces the day's income instead of being added to it
OneTimeIncomeStep_Overwrites(acc, oti, dateStr) ==
    IF EnabledIsFalse(oti) THEN acc
    ELSE IF oti.date = dateStr
         THEN [acc EXCEPT !.incomeToday = oti.amount,
                          !.events = Append(@, [label |-> oti.label, amount |-> oti.amount,
                                                type |-> "income", isOneTime |-> TRUE])]
         ELSE acc

\* -- One-time income --
OneTimeIncomeStep(acc, oti, dateStr) ==
    IF EnabledIsFalse(oti) THEN acc
    ELSE IF oti.date = dateStr
         THEN [acc EXCEPT !.incomeToday = @ + oti.amount,
                          !.events = Append(@, [label |-> oti.label, amount |-> oti.amount,
                                                type |-> "income", isOneTime |-> TRUE])]
         ELSE acc

\* variant: the enabled flag of a recurring expense is not looked at
RecurringExpenseStep_IgnoresEnabled(acc, expense, dom) ==
    IF dom = expense.dayOfMonth
    THEN [acc EXCEPT !.expensesToday = @ + expense.amount,
                     !.events = Append(@, [label |-> expense.label, amount |-> expense.amount,
                                           type |-> "expense"])]
    ELSE acc

\* variant: the day of the month is taken zero-based
RecurringExpenseStep_ZeroBased(acc, expense, dom) ==
    IF EnabledIsFalse(expense) THEN acc
    ELSE IF dom - 1 = expense.dayOfMonth
         THEN [acc EXCEPT !.expensesToday = @ + expense.amount,
                          !.events = Append(@, [label |-> expense.label, amount |-> expense.amount,
                                                type |-> "expense"])]
         ELSE acc

\* variant: the expense is charged on its day and on every later day of the month
RecurringExpenseStep_DueOrPast(acc, expense, dom) ==
    IF EnabledIsFalse(expense) THEN acc
    ELSE IF dom >= expense.dayOfMonth
         THEN [acc EXCEPT !.expensesToday = @ + expense.amount,
                          !.events = Append(@, [label |-> expense.label, amount |-> expense.amount,
                                                type |-> "expense"])]
         ELSE acc

\* -- Recurring expenses --
RecurringExpenseStep(acc, expense, dom) ==
    IF EnabledIsFalse(expense) THEN acc
    ELSE IF dom = expense.dayOfMonth
         THEN [acc EXCEPT !.expensesToday = @ + expense.amount,
                          !.events = Append(@, [label |-> expense.label, amount |-> expense.amount,
                                                type |-> "expense"])]
         ELSE acc

\* variant: the event is pushed but the amount is not added to the total
OneTimeExpenseStep_EventOnly(acc, ote, dateStr) ==
    IF EnabledIsFalse(ote) THEN acc
    ELSE IF ote.date = dateStr
         THEN [acc EXCEPT !.events = Append(@, [label |-> ote.label, amount |-> ote.amount,
                                                type |-> "expense", isOneTime |-> TRUE])]
         ELSE acc

\* -- One-time expenses --
OneTimeExpenseStep(acc, ote, dateStr) ==
    IF EnabledIsFalse(ote) THEN acc
    ELSE IF ote.date = dateStr
         THEN [acc EXCEPT !.expensesToday = @ + ote.amount,
                          !.events = Append(@, [label |-> ote.label, amount |-> ote.amount,
                                                type |-> "expense", isOneTime |-> TRUE])]
         ELSE acc

\* for (const x of xs): the four for-of loops, k the position in the array
RECURSIVE RecurringIncomeLoop(_, _, _, _)
RecurringIncomeLoop(acc, incomes, k, date) ==
    IF k > Len(incomes) THEN acc
    ELSE RecurringIncomeLoop(RecurringIncomeStep(acc, incomes[k], date), incomes, k + 1, date)

RECURSIVE OneTimeIncomeLoop(_, _, _, _)
OneTimeIncomeLoop(acc, otis, k, dateStr) ==
    IF k > Len(otis) THEN acc
    ELSE OneTimeIncomeLoop(OneTimeIncomeStep(acc, otis[k], dateStr), otis, k + 1, dateStr)

RECURSIVE RecurringExpenseLoop(_, _, _, _)
RecurringExpenseLoop(acc, expenses, k, dom) ==
    IF k > Len(expenses) THEN acc
    ELSE RecurringExpenseLoop(RecurringExpenseStep(acc, expenses[k], dom), expenses, k + 1, dom)

RECURSIVE OneTimeExpenseLoop(_, _, _, _)
OneTimeExpenseLoop(acc, otes, k, dateStr) ==
    IF k > Len(otes) THEN acc
    ELSE OneTimeExpenseLoop(OneTimeExpenseStep(acc, otes[k], dateStr), otes, k + 1, dateStr)

\* variant: the two expense loops run before the two income loops
DayTotals_ExpensesFirst(cfg, date) ==
    LET dateStr == format(date)
        dom     == getDate(date)
        weekend == isWeekend(date)
        a0 == [EmptyAcc EXCEPT !.expensesToday =
                   FoodBudgetCost(cfg.foodBudget, weekend)
                   + TransportCost(cfg.transportConfig, weekend)]
        a1 == RecurringExpenseLoop(a0, cfg.recurringExpenses, 1, dom)
        a2 == OneTimeExpenseLoop(a1, cfg.oneTimeExpenses, 1, dateStr)
        a3 == RecurringIncomeLoop(a2, cfg.recurringIncomes, 1, date)
    IN  OneTimeIncomeLoop(a3, cfg.oneTimeIncomes, 1, dateStr)

\* the locals of one iteration, for the day `date`, up to line 142
DayTotals(cfg, date) ==
    LET dateStr == format(date)
        dom     == getDate(date)
        weekend == isWeekend(date)
        a0 == [EmptyAcc EXCEPT !.expensesToday =
                   FoodBudgetCost(cfg.foodBudget, weekend)
                   + TransportCost(cfg.transportConfig, weekend)]
        a1 == RecurringIncomeLoop(a0, cfg.recurringIncomes, 1, date)
        a2 == OneTimeIncomeLoop(a1, cfg.oneTimeIncomes, 1, dateStr)
        a3 == RecurringExpenseLoop(a2, cfg.recurringExpenses, 1, dom)
    IN  OneTimeExpenseLoop(a3, cfg.oneTimeExpenses, 1, dateStr)

\* variant: the day's income is left out of the balance
NewBalance_ExpensesOnly(bal, acc) == bal - acc.expensesToday

\* variant: the balance is rounded to the cent before it is carried over
NewBalance_CarriesRounded(bal, acc) == Round2(bal + acc.incomeToday - acc.expensesToday)

\* balance = balance + incomeToday - expensesToday
NewBalance(bal, acc) == JsSub(JsAdd(bal, acc.incomeToday), acc.expensesToday)

\* the object pushed onto snapshots
Snapshot(date, bal, acc) ==
    [date          |-> format(date),
     balance       |-> Round2(bal),
     incomeToday   |-> Round2(acc.incomeToday),
     expensesToday |-> Round2(acc.expensesToday),
     events        |-> acc.events]

\* variant: the loop stops one day short (i < totalDays)
LoopCondition_Exclusive(idx, total) == idx < total

\* for (let i = 0; i <= totalDays; i++)
LoopCondition(idx, total) == idx <= total

(***************************************************************************)
(* runProjection as a state machine: one action per loop iteration.        *)
(***************************************************************************)
\* variant: the horizon is taken as 30 days per month
RunEntry_ThirtyDayMonths ==
    LET t == startOfDay(clock)
        endDate == startOfDay(addDays(t, 30 * config.projectionMonths))
    IN  /\ today' = t
        /\ totalDays' = differenceInCalendarDays(endDate, t)
        /\ snapshots' = <<>>
        /\ balance' = config.initialBalance
        /\ i' = 0
        /\ incomeToday' = 0
        /\ expensesToday' = 0
        /\ pc' = "loop"
        /\ calls' = calls + 1
        /\ UNCHANGED <<clock, config, firstResult, ticks, hasUserEdits, fadeVars, glowVars, sampled>>

\* lines 62-67: the entry of runProjection; today is read from the wall clock
RunEntry ==
    LET t == startOfDay(clock)
        endDate == startOfDay(addMonths(t, config.projectionMonths))
    IN  /\ today' = t
        /\ totalDays' = differenceInCalendarDays(endDate, t)
        /\ snapshots' = <<>>
        /\ balance' = config.initialBalance
        /\ i' = 0
        /\ incomeToday' = 0
        /\ expensesToday' = 0
        /\ pc' = "loop"
        /\ calls' = calls + 1
        /\ UNCHANGED <<clock, config, firstResult, ticks, hasUserEdits, fadeVars, glowVars, sampled>>

\* the first invocation
Invoke ==
    /\ pc = "idle"
    /\ RunEntry
    /\ UNCHANGED memoDeps

\* a later invocation with the same config
Reinvoke ==
    /\ pc = "done"
    /\ calls < MaxCalls
    /\ RunEntry
    /\ UNCHANGED memoDeps

\* lines 80 and 93: config.foodBudget.enabled and config.transportConfig.enabled
\* are read in every iteration; reading a field of null is a TypeError
ReadsNull(cfg) == cfg.foodBudget = Null \/ cfg.transportConfig = Null

\* lines 69-153: one iteration of the loop
Step ==
    /\ pc = "loop"
    /\ LoopCondition(i, totalDays)
    /\ ~ReadsNull(config)
    /\ LET date == addDays(today, i)
           acc  == DayTotals(config, date)
           bal  == NewBalance(balance, acc)
       IN  /\ balance' = bal
           /\ incomeToday' = acc.incomeToday
           /\ expensesToday' = acc.expensesToday
           /\ snapshots' = Append(snapshots, Snapshot(date, bal, acc))
    /\ i' = i + 1
    /\ UNCHANGED <<clock, config, pc, calls, today, totalDays, firstResult, ticks,
                   hasUserEdits, memoDeps, fadeVars, glowVars, sampled>>

\* lines 80, 93: the iteration throws, and runProjection returns nothing
Throw ==
    /\ pc = "loop"
    /\ LoopCondition(i, totalDays)
    /\ ReadsNull(config)
    /\ pc' = "threw"
    /\ UNCHANGED <<clock, config, calls, today, totalDays, i, balance, incomeToday,
                   expensesToday, snapshots, firstResult, ticks, hasUserEdits,
                   memoDeps, fadeVars, glowVars, sampled>>

\* line 155: return snapshots
Return ==
    /\ pc = "loop"
    /\ ~LoopCondition(i, totalDays)
    /\ pc' = "done"
    /\ firstResult' = IF calls = 1 THEN snapshots ELSE firstResult
    /\ UNCHANGED <<clock, config, calls, today, totalDays, i, balance,
                   incomeToday, expensesToday, snapshots, ticks, hasUserEdits,
                   memoDeps, fadeVars, glowVars, sampled>>

\* the wall clock advances between two invocations: to noon, then to the
\* next midnight
Tick ==
    /\ pc \in {"idle", "done"}
    /\ ticks < MaxTicks
    /\ ticks' = ticks + 1
    /\ clock' = IF clock.hour < 12
                THEN [clock EXCEPT !.hour = 12]
                ELSE [day |-> clock.day + 1, hour |-> 0]
    /\ UNCHANGED <<config, pc, calls, today, totalDays, i, balance,
                   incomeToday, expensesToday, snapshots, firstResult, hasUserEdits,
                   memoDeps, fadeVars, glowVars, sampled>>

(***************************************************************************)
(* runProjection as a function of the config and of the clock reading: the *)
(* array the state machine above returns.  The iterations lo..hi of the    *)
(* loop act on its locals st = [balance, snapshots]; a range of several    *)
(* iterations is run as its first half followed by its second half, which  *)
(* is the same sequence of iterations evaluated to a small depth.  The     *)
(* locals the first half leaves are bound as a value (half) before the     *)
(* second half starts, as the loop has them: passed as an expression they  *)
(* would be computed backwards from the last day, one level per day.       *)
(***************************************************************************)
RECURSIVE ProjectDays(_, _, _, _, _, _)
ProjectDays(cfg, t, total, lo, hi, st) ==
    IF lo > hi THEN st
    ELSE IF lo = hi
    THEN IF ~LoopCondition(lo, total) THEN st
         ELSE LET date == addDays(t, lo)
                  acc  == DayTotals(cfg, date)
                  b    == NewBalance(st.balance, acc)
              IN  [balance |-> b, snapshots |-> Append(st.snapshots, Snapshot(date, b, acc))]
    ELSE LET mid == (lo + hi) \div 2
         IN  CHOOSE r \in {ProjectDays(cfg, t, total, mid + 1, hi, half) :
                               half \in {ProjectDays(cfg, t, total, lo, mid, st)}} : TRUE

runProjection(cfg, now) ==
    LET t == startOfDay(now)
        endDate == startOfDay(addMonths(t, cfg.projectionMonths))
        totalDays_ == differenceInCalendarDays(endDate, t)
    IN  ProjectDays(cfg, t, totalDays_, 0, totalDays_,
                    [balance |-> cfg.initialBalance, snapshots |-> <<>>]).snapshots

(***************************************************************************)
(* Inputs.  The configurations and clock readings the model draws.         *)
(***************************************************************************)
\* days on which a run starts: a month end of a leap year (the horizon end
\* is clamped to Feb 29), an ordinary mid-month Friday, and a year end whose
\* two-month horizon is clamped to Feb 28
StartDays == {<<2024, 1, 31>>, <<2024, 3, 15>>, <<2024, 12, 30>>}

StartClocks == {[day |-> ToDayNum(d), hour |-> 9] : d \in StartDays}

Months == 1..MaxMonths

\* the ISO string of the day off days after t
Day(t, off) == format(addDays(t, off))

\* the ISO string of the horizon end of a run started on t, plus off days
EndDay(t, pm, off) == format(addDays(addMonths(t, pm), off))

Food(on) ==
    [enabled |-> on,
     weekdayBreakfast |-> Cents(350), weekdayLunch |-> Cents(800),
     weekdayDinner |-> Cents(1000), weekdaySnacks |-> Cents(250),
     weekendDailyTotal |-> Cents(3000)]

\* transport blocks: off / auto at 12.5 cents a day (a half-cent tie every
\* other day) / public at 10.00 a week (not a whole number of cents a day) /
\* auto with autoMpg = 0 beside public
TransportOff ==
    [enabled |-> FALSE, autoEnabled |-> TRUE, autoWeekdayMiles |-> 1,
     autoWeekendMiles |-> 3, autoMpg |-> 8, autoFuelCostPerGallon |-> Cents(100),
     publicEnabled |-> TRUE, publicWeeklyCost |-> Cents(1000)]

TransportAuto ==
    [TransportOff EXCEPT !.enabled = TRUE, !.publicEnabled = FALSE]

TransportPublic ==
    [TransportOff EXCEPT !.enabled = TRUE, !.autoEnabled = FALSE]

TransportZeroMpg ==
    [TransportOff EXCEPT !.enabled = TRUE, !.autoMpg = 0]

\* auto with a negative autoMpg beside public
TransportNegativeMpg ==
    [TransportOff EXCEPT !.enabled = TRUE, !.autoMpg = -8]

Transports ==
    {TransportOff, TransportAuto, TransportPublic, TransportZeroMpg, TransportNegativeMpg}

Job(t) ==
    [label |-> "Job", hoursPerWeek |-> 20, hourlyRate |-> Cents(1500),
     frequency |-> "biweekly", startDate |-> Day(t, 0)]

Stipend(t) ==
    [label |-> "Stipend", hoursPerWeek |-> 10, hourlyRate |-> Cents(1001),
     frequency |-> "monthly", startDate |-> Day(t, -3)]

Gift(d) == [label |-> "Gift", amount |-> Cents(5000), date |-> d]

Refund(d) == [label |-> "Refund", amount |-> Cents(1999), date |-> d]

Rent(dom) == [label |-> "Rent", amount |-> Cents(80000), dayOfMonth |-> dom]

Phone(dom) == [label |-> "Phone", amount |-> Cents(4550), dayOfMonth |-> dom]

Books(d) == [label |-> "Books", amount |-> Cents(12000), date |-> d]

Laptop(d) == [label |-> "Laptop", amount |-> Cents(89999), date |-> d]

NoRules ==
    [recurringIncomes |-> <<>>, oneTimeIncomes |-> <<>>,
     recurringExpenses |-> <<>>, oneTimeExpenses |-> <<>>]

\* two rules in each collection; several meet on day 0 and on day 3
RichRules(t) ==
    [recurringIncomes  |-> <<Job(t), Stipend(t)>>,
     oneTimeIncomes    |-> <<Gift(Day(t, 3)), Refund(Day(t, 0))>>,
     recurringExpenses |-> <<Rent(getDate(t)), Phone(getDate(addDays(t, 3)))>>,
     oneTimeExpenses   |-> <<Books(Day(t, 3)), Laptop(Day(t, 10))>>]

Config(ib, pm, rules, food, tc) ==
    [initialBalance    |-> ib,
     projectionMonths  |-> pm,
     recurringIncomes  |-> rules.recurringIncomes,
     oneTimeIncomes    |-> rules.oneTimeIncomes,
     recurringExpenses |-> rules.recurringExpenses,
     oneTimeExpenses   |-> rules.oneTimeExpenses,
     foodBudget        |-> food,
     transportConfig   |-> tc]

\* useProjection before its first render
MemoAtRest == memoDeps = Null

\* useChartFadeTransition just mounted with a dataLength of len
FadeMounted(len) ==
    /\ dataLength = len
    /\ prevLengthRef = len
    /\ fading = FALSE
    /\ chartKey = 0
    /\ fadeTimers = 0
    /\ mounted = TRUE
    /\ lengthChanges = 0

\* useYAxisGlow about to run its first effect with the props fp and dis
GlowMounted(fp, dis) ==
    /\ domainFingerprint = fp
    /\ disabled = dis
    /\ glowing = FALSE
    /\ prevRef = fp
    /\ isFirstRender = TRUE
    /\ timerRef = 0
    /\ glowTimers = {}
    /\ outerFrames = 0
    /\ innerFrames = 0
    /\ lastChange = "none"
    /\ glowMounted = TRUE
    /\ domainChanges = 0

\* the engine before the first invocation
InitEngine ==
    /\ pc = "idle"
    /\ calls = 0
    /\ ticks = 0
    /\ today = [day |-> 0, hour |-> 0]
    /\ totalDays = 0
    /\ i = 0
    /\ balance = 0
    /\ incomeToday = 0
    /\ expensesToday = 0
    /\ snapshots = <<>>
    /\ firstResult = <<>>
    /\ hasUserEdits = FALSE

\* CashBalanceChart before its first render
ChartAtRest == sampled = Null

\* everything but clock and config, before the first invocation; the hooks
\* of the chart are mounted and at rest
InitRun ==
    /\ InitEngine
    /\ ChartAtRest
    /\ MemoAtRest
    /\ FadeMounted(0)
    /\ GlowMounted("0,100", FALSE)

\* standing costs and balances varied, over no rules and over the rich rules
CoreConfigs(t) ==
    {Config(ib, pm, rules, Food(f), tc) :
        ib \in {0, Cents(100000)}, pm \in Months, rules \in {NoRules, RichRules(t)},
        f \in BOOLEAN, tc \in Transports}

Init ==
    /\ clock \in StartClocks
    /\ config \in CoreConfigs(startOfDay(clock))
    /\ InitRun

Next == Invoke \/ Step \/ Return

Spec == Init /\ [][Next]_vars

(***************************************************************************)
(* Helpers of the properties.                                              *)
(***************************************************************************)
Last(seq) == seq[Len(seq)]

\* b is the calendar day after a, both ISO dates
IsNextDay(a, b) ==
    IF a[3] < DaysInMonth(a[1], a[2]) THEN b = <<a[1], a[2], a[3] + 1>>
    ELSE IF a[2] < 12 THEN b = <<a[1], a[2] + 1, 1>>
    ELSE b = <<a[1] + 1, 1, 1>>

\* the ISO date n calendar months after a, the day clamped to the month's end
PlusMonths(a, n) ==
    LET y == a[1] + ((a[2] - 1 + n) \div 12)
        m == ((a[2] - 1 + n) % 12) + 1
    IN  <<y, m, Min(a[3], DaysInMonth(y, m))>>

\* a strictly before b, both ISO dates
DayBefore(a, b) ==
    \/ a[1] < b[1]
    \/ a[1] = b[1] /\ a[2] < b[2]
    \/ a[1] = b[1] /\ a[2] = b[2] /\ a[3] < b[3]

RECURSIVE SumAmounts(_, _)
\* the sum of the amounts of the events of one type
SumAmounts(events, type) ==
    IF events = <<>> THEN 0
    ELSE (IF Head(events).type = type THEN Head(events).amount ELSE 0)
         + SumAmounts(Tail(events), type)

WholeCents(x) == x % UnitsPerCent = 0

\* nearest cent, a tie going away from zero
RoundHalfAwayFromZero(x) ==
    IF x >= 0 THEN ((x + (UnitsPerCent \div 2)) \div UnitsPerCent) * UnitsPerCent
    ELSE -(((-x + (UnitsPerCent \div 2)) \div UnitsPerCent) * UnitsPerCent)

\* the indexes of the snapshots holding an event with this label and type
DaysWithEvent(label, type) ==
    {k \in 1..Len(snapshots) :
        \E e \in 1..Len(snapshots[k].events) :
            /\ snapshots[k].events[e].label = label
            /\ snapshots[k].events[e].type = type}

\* the number of events with this label and type in snapshot k
EventCount(k, label, type) ==
    Cardinality({e \in 1..Len(snapshots[k].events) :
                    /\ snapshots[k].events[e].label = label
                    /\ snapshots[k].events[e].type = type})

(***************************************************************************)
(* C1.  One snapshot per calendar day: the first is dated today, each next *)
(* one is dated the calendar day after the previous one, and the returned  *)
(* array ends on today + projectionMonths calendar months.                 *)
(***************************************************************************)
C1_OneSnapshotPerDay ==
    /\ Len(snapshots) >= 1 => snapshots[1].date = format(clock)
    /\ \A k \in 2..Len(snapshots) : IsNextDay(snapshots[k - 1].date, snapshots[k].date)
    /\ pc = "done" =>
          /\ Len(snapshots) >= 1
          /\ Last(snapshots).date = PlusMonths(format(clock), config.projectionMonths)

\* a returned run that crosses the year end and whose end is clamped to Feb 28
C1_Witness ==
    /\ pc = "done"
    /\ snapshots[1].date = <<2024, 12, 30>>
    /\ Last(snapshots).date = <<2025, 2, 28>>

(***************************************************************************)
(* C2 as stated.  The balance recurrence on the published values: every    *)
(* snapshot's balance is round2(previous published balance + published     *)
(* incomeToday - published expensesToday), initialBalance before day 0.    *)
(***************************************************************************)
PublishedRecurrence(k) ==
    LET prev == IF k = 1 THEN config.initialBalance ELSE snapshots[k - 1].balance
    IN  snapshots[k].balance =
            Round2(prev + snapshots[k].incomeToday - snapshots[k].expensesToday)

C2_PublishedRecurrence ==
    \A k \in 1..Len(snapshots) : PublishedRecurrence(k)

(***************************************************************************)
(* C2 amended.  The recurrence on the published values holds for the       *)
(* snapshot of every day whose unrounded income and expense totals are     *)
(* whole cents (checked on the snapshot just appended, in every state).    *)
(***************************************************************************)
C2_RecurrenceOnWholeCentDays ==
    (Len(snapshots) >= 1 /\ pc = "loop" /\ WholeCents(incomeToday) /\ WholeCents(expensesToday))
        => PublishedRecurrence(Len(snapshots))

\* a whole-cent day with income and expenses, the carried balance being off
\* the cent grid because of an earlier day
C2_Witness ==
    /\ Len(snapshots) >= 2
    /\ pc = "loop"
    /\ WholeCents(incomeToday) /\ incomeToday > 0
    /\ WholeCents(expensesToday) /\ expensesToday > 0
    /\ ~WholeCents(balance)

(***************************************************************************)
(* C3.  incomeToday is round2 of the sum of the day's income events, and   *)
(* expensesToday is round2 of the sum of the day's expense events plus the *)
(* day's food and transport cost.                                          *)
(***************************************************************************)
C3_TotalsAreEventsPlusStanding ==
    \A k \in 1..Len(snapshots) :
        LET s  == snapshots[k]
            wk == isWeekend(parseISO(s.date))
        IN  /\ s.incomeToday = Round2(SumAmounts(s.events, "income"))
            /\ s.expensesToday =
                   Round2(SumAmounts(s.events, "expense")
                          + FoodBudgetCost(config.foodBudget, wk)
                          + TransportCost(config.transportConfig, wk))

\* a day with two income events, an expense event, food and public transport
C3_Witness ==
    \E k \in 1..Len(snapshots) :
        /\ Cardinality({e \in 1..Len(snapshots[k].events) :
                           snapshots[k].events[e].type = "income"}) >= 2
        /\ \E e \in 1..Len(snapshots[k].events) : snapshots[k].events[e].type = "expense"
        /\ config.foodBudget.enabled
        /\ config.transportConfig.enabled /\ config.transportConfig.publicEnabled
        /\ snapshots[k].expensesToday > SumAmounts(snapshots[k].events, "expense")

(***************************************************************************)
(* C4 as stated.  balance, incomeToday and expensesToday are each rounded  *)
(* to the nearest cent, an exact half-cent tie going away from zero, also  *)
(* for negative values (checked on the snapshot just appended).            *)
(***************************************************************************)
C4_TiesAwayFromZero ==
    (Len(snapshots) >= 1 /\ pc = "loop") =>
        /\ Last(snapshots).balance = RoundHalfAwayFromZero(balance)
        /\ Last(snapshots).incomeToday = RoundHalfAwayFromZero(incomeToday)
        /\ Last(snapshots).expensesToday = RoundHalfAwayFromZero(expensesToday)

(***************************************************************************)
(* C8 as stated.  With projectionMonths = 1 an enabled recurring expense   *)
(* due on day 0's day-of-month produces exactly one event in the run.      *)
(***************************************************************************)
DueOnDayZero(k) ==
    /\ config.projectionMonths = 1
    /\ ~EnabledIsFalse(config.recurringExpenses[k])
    /\ config.recurringExpenses[k].dayOfMonth = format(clock)[3]

C8_ExactlyOneEvent ==
    pc = "done" =>
        \A k \in 1..Len(config.recurringExpenses) :
            DueOnDayZero(k) =>
                Cardinality(DaysWithEvent(config.recurringExpenses[k].label, "expense")) = 1

(***************************************************************************)
(* C8 amended.  Such an expense fires on day 0 and, the horizon being      *)
(* inclusive of its end, again on the last day when that day has the same  *)
(* day-of-month (always so for dayOfMonth <= 28), and on no other day.     *)
(***************************************************************************)
C8_DayZeroAndHorizonEnd ==
    pc = "done" =>
        \A k \in 1..Len(config.recurringExpenses) :
            DueOnDayZero(k) =>
                LET exp  == config.recurringExpenses[k]
                    days == DaysWithEvent(exp.label, "expense")
                IN  /\ 1 \in days
                    /\ days \subseteq {1, Len(snapshots)}
                    /\ Len(snapshots) \in days <=> Last(snapshots).date[3] = exp.dayOfMonth
                    /\ exp.dayOfMonth <= 28 => Cardinality(days) = 2

\* a returned one-month run in which the expense fired on day 0 and on the last day
C8_Witness ==
    /\ pc = "done"
    /\ \E k \in 1..Len(config.recurringExpenses) :
          /\ DueOnDayZero(k)
          /\ DaysWithEvent(config.recurringExpenses[k].label, "expense") = {1, Len(snapshots)}
          /\ Len(snapshots) > 28

(***************************************************************************)
(* Inputs that vary the rules: one rule of the rich rules carrying an      *)
(* explicit enabled flag, or the first one-time income and expense dated   *)
(* around the two ends of the horizon.                                     *)
(***************************************************************************)
Collections == {"recurringIncomes", "oneTimeIncomes", "recurringExpenses", "oneTimeExpenses"}

\* the rule with enabled: flag
WithFlag(rule, flag) ==
    [f \in DOMAIN rule \cup {"enabled"} |-> IF f = "enabled" THEN flag ELSE rule[f]]

\* cfg with rule k of collection coll given enabled: flag
SetEnabled(cfg, coll, k, flag) ==
    [cfg EXCEPT ![coll] = [@ EXCEPT ![k] = WithFlag(@, flag)]]

\* cfg with rule k of collection coll removed
DeleteRule(cfg, coll, k) ==
    [cfg EXCEPT ![coll] = SubSeq(@, 1, k - 1) \o SubSeq(@, k + 1, Len(@))]

RuleConfig(t, pm, rules) == Config(Cents(100000), pm, rules, Food(TRUE), TransportPublic)

ToggleConfigs(t) ==
    {SetEnabled(RuleConfig(t, pm, RichRules(t)), coll, k, flag) :
        pm \in Months, coll \in Collections, k \in 1..2, flag \in BOOLEAN}

\* dates around the horizon of a run started on t
EdgeDays(t, pm) ==
    {Day(t, -1), Day(t, 0), Day(t, 3), EndDay(t, pm, 0), EndDay(t, pm, 1)}

DatedRules(t, d1, d2, flagged) ==
    [RichRules(t) EXCEPT
        !.oneTimeIncomes  = <<IF flagged THEN WithFlag(Gift(d1), TRUE) ELSE Gift(d1),
                              Refund(Day(t, 0))>>,
        !.oneTimeExpenses = <<Books(d2), Laptop(Day(t, 10))>>]

DateConfigs(t) ==
    UNION {{RuleConfig(t, pm, DatedRules(t, d1, d2, fl)) :
                d1 \in EdgeDays(t, pm), d2 \in EdgeDays(t, pm), fl \in BOOLEAN} :
           pm \in Months}

InitRules ==
    /\ clock \in StartClocks
    /\ config \in ToggleConfigs(startOfDay(clock))
    /\ InitRun

SpecRules == InitRules /\ [][Next]_vars

InitDates ==
    /\ clock \in StartClocks
    /\ config \in DateConfigs(startOfDay(clock))
    /\ InitRun

SpecDates == InitDates /\ [][Next]_vars

(***************************************************************************)
(* C5.  A rule with enabled = false projects as if it were deleted: the    *)
(* returned array is the projection of the config without each disabled    *)
(* rule, and for every rule of the config, disabling it and deleting it    *)
(* give the same array.                                                    *)
(***************************************************************************)
C5_DisabledIsDeleted ==
    pc = "done" =>
        \A coll \in Collections : \A k \in 1..Len(config[coll]) :
            /\ EnabledIsFalse(config[coll][k]) =>
                   snapshots = runProjection(DeleteRule(config, coll, k), clock)
            /\ runProjection(SetEnabled(config, coll, k, FALSE), clock)
                   = runProjection(DeleteRule(config, coll, k), clock)

\* a returned run with a disabled rule that would have changed the result,
\* beside an enabled rule of the same collection that did produce an event
C5_Witness ==
    /\ pc = "done"
    /\ \E coll \in Collections : \E k \in 1..Len(config[coll]) :
          /\ EnabledIsFalse(config[coll][k])
          /\ runProjection(SetEnabled(config, coll, k, TRUE), clock) # snapshots
          /\ \E j \in 1..Len(config[coll]) :
                /\ j # k
                /\ Has(config[coll][j], "amount")
                /\ DaysWithEvent(config[coll][j].label,
                                 IF coll = "oneTimeIncomes" THEN "income" ELSE "expense") # {}

(***************************************************************************)
(* C7.  An enabled one-time income or expense dated d has exactly one      *)
(* event, in the snapshot dated d, carrying its amount, when               *)
(* today <= d <= horizonEnd, and no event at all otherwise.                *)
(***************************************************************************)
OneTimeOnItsDay(item, type) ==
    LET first == format(clock)
        end   == PlusMonths(first, config.projectionMonths)
        days  == DaysWithEvent(item.label, type)
    IN  IF ~DayBefore(item.date, first) /\ ~DayBefore(end, item.date)
        THEN /\ Cardinality(days) = 1
             /\ \A k \in days :
                   /\ snapshots[k].date = item.date
                   /\ EventCount(k, item.label, type) = 1
                   /\ \A e \in 1..Len(snapshots[k].events) :
                         snapshots[k].events[e].label = item.label =>
                             /\ snapshots[k].events[e].amount = item.amount
                             /\ Has(snapshots[k].events[e], "isOneTime")
                   /\ IF type = "income"
                      THEN snapshots[k].incomeToday >= Round2(item.amount)
                      ELSE snapshots[k].expensesToday >= Round2(item.amount)
        ELSE days = {}

C7_OneTimeInsideHorizonOnly ==
    pc = "done" =>
        /\ \A k \in 1..Len(config.oneTimeIncomes) :
              ~EnabledIsFalse(config.oneTimeIncomes[k]) =>
                  OneTimeOnItsDay(config.oneTimeIncomes[k], "income")
        /\ \A k \in 1..Len(config.oneTimeExpenses) :
              ~EnabledIsFalse(config.oneTimeExpenses[k]) =>
                  OneTimeOnItsDay(config.oneTimeExpenses[k], "expense")

\* a returned run with an expense dated horizonEnd in the last snapshot and
\* an income dated the day after horizonEnd in no snapshot
C7_Witness ==
    /\ pc = "done"
    /\ \E k \in 1..Len(config.oneTimeExpenses) :
          /\ config.oneTimeExpenses[k].date = Last(snapshots).date
          /\ DaysWithEvent(config.oneTimeExpenses[k].label, "expense") = {Len(snapshots)}
    /\ \E k \in 1..Len(config.oneTimeIncomes) :
          /\ IsNextDay(Last(snapshots).date, config.oneTimeIncomes[k].date)
          /\ ~EnabledIsFalse(config.oneTimeIncomes[k])
          /\ DaysWithEvent(config.oneTimeIncomes[k].label, "income") = {}

(***************************************************************************)
(* Repeated invocations under an advancing wall clock.                     *)
(***************************************************************************)
ClockConfigs(t) ==
    {Config(Cents(100000), 1, rules, Food(TRUE), TransportPublic) :
        rules \in {NoRules, RichRules(t)}}

InitClock ==
    /\ clock \in StartClocks
    /\ config \in ClockConfigs(startOfDay(clock))
    /\ InitRun

NextClock == Invoke \/ Step \/ Return \/ Tick \/ Reinvoke

SpecClock == InitClock /\ [][NextClock]_vars

(***************************************************************************)
(* C6 as stated.  The result depends on the config alone (today being an   *)
(* input, the wall clock never read): an invocation returns the array the  *)
(* first invocation with the same config returned, whenever it is run.     *)
(***************************************************************************)
C6_SameConfigSameResult ==
    (pc = "done" /\ calls >= 2) => snapshots = firstResult

(***************************************************************************)
(* Inputs that vary one recurring income: its frequency, its anchor        *)
(* (before today in and out of phase, today, in the future, on the 31st)   *)
(* and its end date.                                                       *)
(***************************************************************************)
Frequencies == {"weekly", "biweekly", "monthly", "quarterly"}

Anchors(t) == {Day(t, -20), Day(t, -14), Day(t, -3), Day(t, 0), Day(t, 9), <<2024, 1, 31>>}

Income(freq, start) ==
    [label |-> "Job", hoursPerWeek |-> 20, hourlyRate |-> Cents(1500),
     frequency |-> freq, startDate |-> start]

WithEndDate(income, end) ==
    [f \in DOMAIN income \cup {"endDate"} |-> IF f = "endDate" THEN end ELSE income[f]]

Incomes(t) ==
    {Income(fr, st) : fr \in Frequencies, st \in Anchors(t)}
    \cup {WithEndDate(Income(fr, st), Day(t, e)) :
              fr \in Frequencies, st \in Anchors(t), e \in {14, 20}}

PaydayConfigs(t) ==
    {Config(0, pm, [NoRules EXCEPT !.recurringIncomes = <<inc>>], Food(FALSE), TransportOff) :
        pm \in Months, inc \in Incomes(t)}

InitPayday ==
    /\ clock \in StartClocks
    /\ config \in PaydayConfigs(startOfDay(clock))
    /\ InitRun

SpecPayday == InitPayday /\ [][Next]_vars

\* snapshot k holds a paycheck event of this income
HasPaycheck(k, income) ==
    \E e \in 1..Len(snapshots[k].events) :
        /\ snapshots[k].events[e].label = <<income.label, " paycheck">>
        /\ snapshots[k].events[e].type = "income"

PaycheckDays(income) == {k \in 1..Len(snapshots) : HasPaycheck(k, income)}

\* the ISO date d is after the income's end date
PastEnd(d, income) == Has(income, "endDate") /\ DayBefore(income.endDate, d)

Period(income) == IF income.frequency = "weekly" THEN 7 ELSE 14

(***************************************************************************)
(* C9.  An enabled weekly (biweekly) income pays on a simulated date iff   *)
(* the date is daysDiff >= 0 days after startDate, not after endDate, and  *)
(* daysDiff is a multiple of 7 (14); so its consecutive paychecks are 7    *)
(* (14) days apart and none precedes startDate.                            *)
(***************************************************************************)
C9_WeeklyBiweeklyPaydays ==
    \A r \in 1..Len(config.recurringIncomes) :
        LET income == config.recurringIncomes[r]
            days   == PaycheckDays(income)
        IN  (~EnabledIsFalse(income) /\ income.frequency \in {"weekly", "biweekly"}) =>
                /\ \A k \in 1..Len(snapshots) :
                      LET daysDiff == ToDayNum(snapshots[k].date) - ToDayNum(income.startDate)
                      IN  HasPaycheck(k, income) <=>
                              /\ daysDiff >= 0
                              /\ ~PastEnd(snapshots[k].date, income)
                              /\ daysDiff % Period(income) = 0
                /\ \A a \in days : \A b \in days :
                      (a < b /\ ~\E c \in days : a < c /\ c < b) => b - a = Period(income)
                /\ \A k \in days : ~DayBefore(snapshots[k].date, income.startDate)

\* a weekly income anchored before today and out of phase with it: no
\* paycheck on day 0 and at least two paychecks later
C9_Witness ==
    \E r \in 1..Len(config.recurringIncomes) :
        LET income == config.recurringIncomes[r]
        IN  /\ income.frequency = "weekly"
            /\ Len(snapshots) >= 1
            /\ DayBefore(income.startDate, snapshots[1].date)
            /\ 1 \notin PaycheckDays(income)
            /\ Cardinality(PaycheckDays(income)) >= 2

(***************************************************************************)
(* C10.  An enabled monthly income pays on a simulated date on or after    *)
(* startDate and not after endDate iff the date's day-of-month is that of  *)
(* startDate; it never pays before startDate, and a month that lacks that  *)
(* day-of-month has no paycheck.                                           *)
(***************************************************************************)
C10_MonthlyExactDayOfMonth ==
    \A r \in 1..Len(config.recurringIncomes) :
        LET income == config.recurringIncomes[r]
        IN  (~EnabledIsFalse(income) /\ income.frequency = "monthly") =>
                \A k \in 1..Len(snapshots) :
                    LET d == snapshots[k].date
                    IN  /\ HasPaycheck(k, income) <=>
                              /\ ~DayBefore(d, income.startDate)
                              /\ ~PastEnd(d, income)
                              /\ d[3] = income.startDate[3]
                        /\ DaysInMonth(d[1], d[2]) < income.startDate[3]
                              => ~HasPaycheck(k, income)

\* a monthly income anchored on the 31st: the run holds every day of a
\* 30-day month, all without a paycheck, and a paycheck on a 31st
C10_Witness ==
    \E r \in 1..Len(config.recurringIncomes) :
        LET income == config.recurringIncomes[r]
        IN  /\ income.frequency = "monthly"
            /\ income.startDate[3] = 31
            /\ \E a \in 1..Len(snapshots) : \E b \in 1..Len(snapshots) :
                  /\ snapshots[a].date = <<2024, 4, 1>>
                  /\ snapshots[b].date = <<2024, 4, 30>>
                  /\ \A k \in a..b : ~HasPaycheck(k, income)
            /\ \E k \in PaycheckDays(income) : snapshots[k].date[3] = 31

\* the ISO date d is on the income's schedule: on or after startDate and
\* passing the test of its frequency
OnSchedule(income, d) ==
    LET daysDiff == ToDayNum(d) - ToDayNum(income.startDate)
    IN  /\ daysDiff >= 0
        /\ \/ income.frequency = "weekly" /\ daysDiff % 7 = 0
           \/ income.frequency = "biweekly" /\ daysDiff % 14 = 0
           \/ income.frequency = "monthly" /\ d[3] = income.startDate[3]

(***************************************************************************)
(* C11.  An enabled recurring income never has a paycheck on a date after  *)
(* its endDate; it has its paycheck on endDate itself when endDate is on   *)
(* its schedule; and without an endDate it pays on every simulated date on *)
(* its schedule, up to the end of the horizon.                             *)
(***************************************************************************)
C11_EndDateInclusive ==
    \A r \in 1..Len(config.recurringIncomes) :
        LET income == config.recurringIncomes[r]
        IN  ~EnabledIsFalse(income) =>
                /\ \A k \in PaycheckDays(income) : ~PastEnd(snapshots[k].date, income)
                /\ \A k \in 1..Len(snapshots) :
                      (/\ Has(income, "endDate")
                       /\ snapshots[k].date = income.endDate
                       /\ OnSchedule(income, income.endDate)) => HasPaycheck(k, income)
                /\ ~Has(income, "endDate") =>
                      \A k \in 1..Len(snapshots) :
                          OnSchedule(income, snapshots[k].date) => HasPaycheck(k, income)

\* a returned run with a paycheck on the end date itself and, later, a date
\* on the schedule without a paycheck
C11_Witness ==
    /\ pc = "done"
    /\ \E r \in 1..Len(config.recurringIncomes) :
          LET income == config.recurringIncomes[r]
          IN  /\ Has(income, "endDate")
              /\ \E k \in PaycheckDays(income) : snapshots[k].date = income.endDate
              /\ \E k \in 1..Len(snapshots) :
                    /\ DayBefore(income.endDate, snapshots[k].date)
                    /\ OnSchedule(income, snapshots[k].date)
                    /\ ~HasPaycheck(k, income)

PayFrequency == {"weekly", "biweekly", "monthly"}

(***************************************************************************)
(* C12.  A paycheck event carries hoursPerWeek * hourlyRate for a weekly   *)
(* income, twice that for a biweekly one and 52/12 of it for a monthly     *)
(* one.  An income whose frequency is none of the three adds no income on  *)
(* any day, and the run returns its array over the whole horizon.          *)
(***************************************************************************)
C12_PaycheckAmounts ==
    \A r \in 1..Len(config.recurringIncomes) :
        LET income == config.recurringIncomes[r]
            weekly == income.hoursPerWeek * income.hourlyRate
        IN  /\ income.frequency \in PayFrequency =>
                \A k \in 1..Len(snapshots) : \A e \in 1..Len(snapshots[k].events) :
                    LET ev == snapshots[k].events[e]
                    IN  ev.label = <<income.label, " paycheck">> =>
                            \/ income.frequency = "weekly" /\ ev.amount = weekly
                            \/ income.frequency = "biweekly" /\ ev.amount = weekly * 2
                            \/ income.frequency = "monthly" /\ ev.amount * 12 = weekly * 52
            /\ income.frequency \notin PayFrequency =>
                /\ \A k \in 1..Len(snapshots) :
                      /\ snapshots[k].incomeToday = 0
                      /\ SumAmounts(snapshots[k].events, "income") = 0
                /\ pc = "loop" => ENABLED (Step \/ Return)
                /\ pc = "done" =>
                      /\ Len(snapshots) >= 1
                      /\ Last(snapshots).date =
                             PlusMonths(format(clock), config.projectionMonths)

\* a returned run of an enabled income of an unknown frequency, anchored on
\* day 0 and without end date, beside which a monthly income would have paid
C12_Witness ==
    /\ pc = "done"
    /\ Len(snapshots) >= 29
    /\ \E r \in 1..Len(config.recurringIncomes) :
          LET income == config.recurringIncomes[r]
          IN  /\ income.frequency \notin PayFrequency
              /\ ~EnabledIsFalse(income)
              /\ ~Has(income, "endDate")
              /\ income.startDate = snapshots[1].date
              /\ income.hoursPerWeek * income.hourlyRate > 0
              /\ \A k \in 1..Len(snapshots) : snapshots[k].incomeToday = 0

\* cfg with the enabled field of rule k of collection coll removed
ClearEnabled(cfg, coll, k) ==
    [cfg EXCEPT ![coll] =
        [@ EXCEPT ![k] = [f \in (DOMAIN @) \ {"enabled"} |-> @[f]]]]

(***************************************************************************)
(* C13.  For every rule of the four collections, the config without the    *)
(* rule's enabled field and the config with enabled = true for that rule   *)
(* project to the same array; the returned array is the one of both.       *)
(***************************************************************************)
C13_AbsentIsEnabled ==
    pc = "done" =>
        \A coll \in Collections : \A k \in 1..Len(config[coll]) :
            LET absent == runProjection(ClearEnabled(config, coll, k), clock)
                true   == runProjection(SetEnabled(config, coll, k, TRUE), clock)
            IN  /\ absent = true
                /\ ~EnabledIsFalse(config[coll][k]) => snapshots = absent

\* a returned run holding a rule with enabled = true and a rule without the
\* field, both of which changed the result
C13_Witness ==
    /\ pc = "done"
    /\ \E coll \in Collections : \E k \in 1..Len(config[coll]) :
          /\ Has(config[coll][k], "enabled")
          /\ config[coll][k].enabled = TRUE
          /\ runProjection(DeleteRule(config, coll, k), clock) # snapshots
    /\ \E coll \in Collections : \E k \in 1..Len(config[coll]) :
          /\ ~Has(config[coll][k], "enabled")
          /\ runProjection(DeleteRule(config, coll, k), clock) # snapshots

\* the ISO date d is a Saturday or a Sunday (2024-01-01 is a Monday)
SatOrSun(d) == ToDayNum(d) % 7 \in {5, 6}

\* the food cost of the ISO date d as the food budget states it
StatedFood(d) ==
    LET fb == config.foodBudget
    IN  IF ~fb.enabled THEN 0
        ELSE IF SatOrSun(d) THEN fb.weekendDailyTotal
        ELSE fb.weekdayBreakfast + fb.weekdayLunch + fb.weekdayDinner + fb.weekdaySnacks

\* the part of the unrounded expensesToday of the day just simulated that
\* comes from no event
StandingCost == expensesToday - SumAmounts(Last(snapshots).events, "expense")

(***************************************************************************)
(* C14.  With transport and its auto part enabled and autoMpg <= 0, every  *)
(* day's standing cost is the food cost plus the public part alone (the    *)
(* auto part adds exactly 0), every published value is a number, and the   *)
(* run goes on to the end of the loop.                                     *)
(***************************************************************************)
C14_NonPositiveMpgAddsNothing ==
    LET tc == config.transportConfig
    IN  (tc.enabled /\ tc.autoEnabled /\ tc.autoMpg <= 0) =>
            /\ (pc = "loop" /\ Len(snapshots) >= 1) =>
                  (StandingCost - StatedFood(Last(snapshots).date)) * 7
                      = IF tc.publicEnabled THEN tc.publicWeeklyCost ELSE 0
            /\ \A k \in 1..Len(snapshots) :
                  /\ snapshots[k].balance \in Int
                  /\ snapshots[k].incomeToday \in Int
                  /\ snapshots[k].expensesToday \in Int
            /\ pc = "loop" => ENABLED (Step \/ Return)

\* a weekend day just simulated with a negative autoMpg, miles to drive and
\* fuel to pay, food and the public part charged
C14_Witness ==
    LET tc == config.transportConfig
    IN  /\ pc = "loop"
        /\ Len(snapshots) >= 1
        /\ tc.enabled /\ tc.autoEnabled /\ tc.autoMpg < 0
        /\ tc.autoWeekendMiles > 0 /\ tc.autoFuelCostPerGallon > 0
        /\ SatOrSun(Last(snapshots).date)
        /\ config.foodBudget.enabled
        /\ StandingCost > config.foodBudget.weekendDailyTotal

(***************************************************************************)
(* C15.  Every day's standing cost is food + transport: food is 0 when the *)
(* food budget is disabled, weekendDailyTotal on a Saturday or Sunday and  *)
(* the sum of the four weekday meals from Monday to Friday; transport is 0 *)
(* when disabled, else miles / mpg * fuel price (weekend or weekday miles, *)
(* only with the auto part enabled and mpg > 0) plus publicWeeklyCost / 7  *)
(* (only with the public part enabled), the latter on all seven weekdays.  *)
(* Stated on the day just simulated, free of divisions: with M = mpg when  *)
(* the auto part counts and 1 otherwise, 7 * M * (standing - food) is      *)
(* 7 * miles * fuel price + M * publicWeeklyCost.                          *)
(***************************************************************************)
C15_StandingCost ==
    (pc = "loop" /\ Len(snapshots) >= 1) =>
        LET tc     == config.transportConfig
            d      == Last(snapshots).date
            auto   == tc.enabled /\ tc.autoEnabled /\ tc.autoMpg > 0
            public == tc.enabled /\ tc.publicEnabled
            M      == IF auto THEN tc.autoMpg ELSE 1
            miles  == IF SatOrSun(d) THEN tc.autoWeekendMiles ELSE tc.autoWeekdayMiles
        IN  7 * M * (StandingCost - StatedFood(d))
                = (IF auto THEN 7 * miles * tc.autoFuelCostPerGallon ELSE 0)
                  + (IF public THEN M * tc.publicWeeklyCost ELSE 0)

\* a Saturday just simulated with food, an expense event and the auto part
\* charged, after a weekday
C15_Witness ==
    /\ pc = "loop"
    /\ Len(snapshots) >= 2
    /\ ToDayNum(Last(snapshots).date) % 7 = 5
    /\ config.foodBudget.enabled
    /\ config.transportConfig.enabled
    /\ config.transportConfig.autoEnabled
    /\ config.transportConfig.autoMpg > 0
    /\ SumAmounts(Last(snapshots).events, "expense") > 0
    /\ StandingCost > config.foodBudget.weekendDailyTotal

(***************************************************************************)
(* Inputs in which the rules meet: the eight rules all match day 0 (and    *)
(* the recurring ones later days), in the order below or each collection   *)
(* reversed.                                                               *)
(***************************************************************************)
Reverse(seq) == [j \in 1..Len(seq) |-> seq[Len(seq) + 1 - j]]

MeetingRules(t, reversed) ==
    LET rules ==
          [recurringIncomes  |-> <<Job(t), [Stipend(t) EXCEPT !.startDate = Day(t, 0)]>>,
           oneTimeIncomes    |-> <<Gift(Day(t, 0)), Refund(Day(t, 0))>>,
           recurringExpenses |-> <<Rent(getDate(t)), Phone(getDate(t))>>,
           oneTimeExpenses   |-> <<Books(Day(t, 0)), Laptop(Day(t, 0))>>]
    IN  IF reversed THEN [c \in DOMAIN rules |-> Reverse(rules[c])] ELSE rules

OrderConfigs(t) ==
    {RuleConfig(t, pm, MeetingRules(t, rev)) : pm \in Months, rev \in BOOLEAN}

InitOrder ==
    /\ clock \in StartClocks
    /\ config \in OrderConfigs(startOfDay(clock))
    /\ InitRun

SpecOrder == InitOrder /\ [][Next]_vars

\* the collections in the order the engine enumerates them
CollectionOrder ==
    <<"recurringIncomes", "oneTimeIncomes", "recurringExpenses", "oneTimeExpenses">>

\* the label and type of the events of rule j of collection number c
LabelOf(c, j) ==
    LET rule == config[CollectionOrder[c]][j]
    IN  IF c = 1 THEN <<rule.label, " paycheck">> ELSE rule.label

TypeOf(c) == IF c <= 2 THEN "income" ELSE "expense"

Rules == UNION {{<<c, j>> : j \in 1..Len(config[CollectionOrder[c]])} : c \in 1..4}

\* the event ev has the label and type of the events of rule j of collection
\* number c (a paycheck label, a pair, is never equal to a plain one)
EventOf(c, j, ev) ==
    /\ TypeOf(c) = ev.type
    /\ IF c = 1 THEN LabelOf(c, j) = ev.label ELSE ev.label = LabelOf(c, j)

\* the rule an event comes from: <<collection number, position in the config>>
Origin(ev) == CHOOSE p \in Rules : EventOf(p[1], p[2], ev)

(***************************************************************************)
(* C16.  In every snapshot's events, the recurring-income events come      *)
(* first, then the one-time-income ones, then the recurring-expense ones,  *)
(* then the one-time-expense ones, and the events of one collection are in *)
(* the order of their rules in the config.                                 *)
(***************************************************************************)
C16_EventOrder ==
    \A k \in 1..Len(snapshots) :
        \A a \in 1..Len(snapshots[k].events) : \A b \in 1..Len(snapshots[k].events) :
            a < b =>
                LET pa == Origin(snapshots[k].events[a])
                    pb == Origin(snapshots[k].events[b])
                IN  \/ pa[1] < pb[1]
                    \/ pa[1] = pb[1] /\ pa[2] < pb[2]

\* a day on which all eight rules of a reversed config fired
C16_Witness ==
    \E k \in 1..Len(snapshots) :
        /\ Len(snapshots[k].events) = 8
        /\ config.recurringIncomes[1].label = "Stipend"
        /\ snapshots[k].events[1].label = <<"Stipend", " paycheck">>
        /\ snapshots[k].events[8].label = "Books"

\* rule j of collection number c is due on the ISO date d, its enabled flag
\* left aside
Due(c, j, d) ==
    LET rule == config[CollectionOrder[c]][j]
    IN  CASE c = 1 -> OnSchedule(rule, d) /\ ~PastEnd(d, rule)
          [] c = 3 -> rule.dayOfMonth = d[3]
          [] OTHER -> rule.date = d

\* an enabled rule that matches the ISO date d
Matches(c, j, d) == ~EnabledIsFalse(config[CollectionOrder[c]][j]) /\ Due(c, j, d)

\* snapshot k lists one event per matching rule, of the collection's type
\* and with the rule's label (followed by ' paycheck' for a recurring
\* income), and nothing else; the one-time events are the ones marked
EventsOfMatchingRules(k) ==
    LET s == snapshots[k]
    IN  /\ \A p \in Rules :
              Cardinality({e \in 1..Len(s.events) : EventOf(p[1], p[2], s.events[e])})
                  = IF Matches(p[1], p[2], s.date) THEN 1 ELSE 0
        /\ Len(s.events) = Cardinality({p \in Rules : Matches(p[1], p[2], s.date)})
        /\ \A e \in 1..Len(s.events) :
              LET ev == s.events[e]
              IN  /\ ev.type \in {"income", "expense"}
                  /\ (Has(ev, "isOneTime") /\ ev.isOneTime = TRUE)
                         <=> Origin(ev)[1] \in {2, 4}

(***************************************************************************)
(* C17 as stated.  Each day's events are exactly one per enabled matching  *)
(* rule, none for food or transport; isOneTime is true exactly on the      *)
(* events of the one-time collections, and the recurring-income and        *)
(* recurring-expense events carry isOneTime = false.                       *)
(***************************************************************************)
C17_RecurringCarryFalse ==
    \A k \in 1..Len(snapshots) :
        /\ EventsOfMatchingRules(k)
        /\ \A e \in 1..Len(snapshots[k].events) :
              LET ev == snapshots[k].events[e]
              IN  Origin(ev)[1] \in {1, 3} =>
                      Has(ev, "isOneTime") /\ ev.isOneTime = FALSE

(***************************************************************************)
(* C17 amended.  The same, the recurring-income and recurring-expense      *)
(* events carrying no isOneTime field at all.                              *)
(***************************************************************************)
C17_RecurringUnmarked ==
    \A k \in 1..Len(snapshots) :
        /\ EventsOfMatchingRules(k)
        /\ \A e \in 1..Len(snapshots[k].events) :
              Origin(snapshots[k].events[e])[1] \in {1, 3} =>
                  ~Has(snapshots[k].events[e], "isOneTime")

\* a day with a paycheck and a one-time event, a disabled rule that is due
\* and a standing cost beside the expense events
C17_Witness ==
    \E k \in 1..Len(snapshots) :
        /\ \E e \in 1..Len(snapshots[k].events) : Origin(snapshots[k].events[e])[1] = 1
        /\ \E e \in 1..Len(snapshots[k].events) : Origin(snapshots[k].events[e])[1] \in {2, 4}
        /\ \E p \in Rules :
              /\ EnabledIsFalse(config[CollectionOrder[p[1]]][p[2]])
              /\ Due(p[1], p[2], snapshots[k].date)
        /\ snapshots[k].expensesToday > SumAmounts(snapshots[k].events, "expense")

(***************************************************************************)
(* Inputs that vary one recurring expense: its day of the month, from the  *)
(* first to the 31st, with no other rule and no standing cost.             *)
(***************************************************************************)
DueDays == {1, 15, 28, 30, 31}

ExpenseConfigs(t) ==
    {Config(0, pm, [NoRules EXCEPT !.recurringExpenses = <<Rent(dom)>>],
            Food(FALSE), TransportOff) :
        pm \in Months, dom \in DueDays}

InitExpense ==
    /\ clock \in StartClocks
    /\ config \in ExpenseConfigs(startOfDay(clock))
    /\ InitRun

SpecExpense == InitExpense /\ [][Next]_vars

\* the calendar months <<y, m>> whose first and last day are both simulated
MonthsInside ==
    {ym \in Years \X (1..12) :
        /\ \E k \in 1..Len(snapshots) : snapshots[k].date = <<ym[1], ym[2], 1>>
        /\ \E k \in 1..Len(snapshots) :
              snapshots[k].date = <<ym[1], ym[2], DaysInMonth(ym[1], ym[2])>>}

(***************************************************************************)
(* C18.  An enabled recurring expense has an event, its amount in          *)
(* expensesToday, on a simulated day iff the day's day-of-month is its     *)
(* dayOfMonth, from day 0 on; so with dayOfMonth in 1..28 it fires exactly *)
(* once in every calendar month lying fully inside the horizon, and with   *)
(* dayOfMonth = 31 it never fires in a 30-day month.                       *)
(***************************************************************************)
C18_RecurringExpenseOnItsDay ==
    \A r \in 1..Len(config.recurringExpenses) :
        LET expense == config.recurringExpenses[r]
            days    == DaysWithEvent(expense.label, "expense")
        IN  ~EnabledIsFalse(expense) =>
                /\ \A k \in 1..Len(snapshots) :
                      IF snapshots[k].date[3] = expense.dayOfMonth
                      THEN /\ EventCount(k, expense.label, "expense") = 1
                           /\ SumAmounts(snapshots[k].events, "expense") = expense.amount
                           /\ snapshots[k].expensesToday >= Round2(expense.amount)
                      ELSE k \notin days
                /\ expense.dayOfMonth \in 1..28 =>
                      \A ym \in MonthsInside :
                          Cardinality({k \in days : /\ snapshots[k].date[1] = ym[1]
                                                    /\ snapshots[k].date[2] = ym[2]}) = 1
                /\ expense.dayOfMonth = 31 =>
                      \A k \in days :
                          DaysInMonth(snapshots[k].date[1], snapshots[k].date[2]) # 30

\* a returned run of an expense due on the 31st that holds the whole of
\* April 2024, the expense having fired on March 31st
C18_Witness ==
    /\ pc = "done"
    /\ <<2024, 4>> \in MonthsInside
    /\ \E r \in 1..Len(config.recurringExpenses) :
          LET expense == config.recurringExpenses[r]
          IN  /\ expense.dayOfMonth = 31
              /\ \E k \in DaysWithEvent(expense.label, "expense") :
                    snapshots[k].date = <<2024, 3, 31>>

(***************************************************************************)
(* The budget store (src/src/store/budgetStore.ts).  The variable config   *)
(* is the BudgetConfig part of the store's state, hasUserEdits its flag.   *)
(* A store action runs between two runs of the engine, never inside one.   *)
(* generateId() is modelled as the choice of an id not in use.  A JSON     *)
(* text is modelled as [parses, typeof, value]: whether JSON.parse takes   *)
(* it, what typeof / Array.isArray say of each top-level field of the      *)
(* parsed value, and the parsed value itself.                              *)
(***************************************************************************)
MaxExpenses == 2

Ids == 1..MaxExpenses

\* nextFriday(): the Friday after the clock's day
nextFriday(now) ==
    LET day  == getDay(now)
        diff == IF (5 - day + 7) % 7 = 0 THEN 7 ELSE (5 - day + 7) % 7
    IN  format(addDays(now, diff))

defaultConfig(now) ==
    [initialBalance    |-> Cents(100000),
     projectionMonths  |-> 12,
     recurringIncomes  |-> <<[id |-> 1, label |-> "Part-time Job", hoursPerWeek |-> 20,
                              hourlyRate |-> Cents(1500), frequency |-> "biweekly",
                              startDate |-> nextFriday(now), enabled |-> TRUE]>>,
     oneTimeIncomes    |-> <<>>,
     recurringExpenses |-> <<[id |-> 1, label |-> "Rent", amount |-> Cents(80000),
                              dayOfMonth |-> 1, enabled |-> TRUE]>>,
     oneTimeExpenses   |-> <<>>,
     foodBudget        |-> [enabled |-> TRUE,
                            weekdayBreakfast |-> Cents(300), weekdayLunch |-> Cents(800),
                            weekdayDinner |-> Cents(1200), weekdaySnacks |-> Cents(200),
                            weekendDailyTotal |-> Cents(2500)],
     transportConfig   |-> [enabled |-> TRUE, autoEnabled |-> TRUE,
                            autoWeekdayMiles |-> 20, autoWeekendMiles |-> 10,
                            autoMpg |-> 30, autoFuelCostPerGallon |-> Cents(350),
                            publicEnabled |-> FALSE, publicWeeklyCost |-> 0]]

\* budgetTemplates[0].config, 'Student - 20 Hours/Week'
StudentTemplate(now) ==
    [initialBalance    |-> Cents(100000),
     projectionMonths  |-> 12,
     recurringIncomes  |-> <<[id |-> 1, label |-> "Part-time Job", hoursPerWeek |-> 20,
                              hourlyRate |-> Cents(1500), frequency |-> "biweekly",
                              startDate |-> nextFriday(now)]>>,
     oneTimeIncomes    |-> <<[id |-> 1, label |-> "Financial Aid Refund",
                              amount |-> Cents(250000), date |-> format(addDays(now, 30))]>>,
     recurringExpenses |-> <<[id |-> 1, label |-> "Rent", amount |-> Cents(60000),
                              dayOfMonth |-> 1],
                             [id |-> 2, label |-> "Phone Bill", amount |-> Cents(5000),
                              dayOfMonth |-> 15]>>,
     oneTimeExpenses   |-> <<[id |-> 1, label |-> "Textbooks", amount |-> Cents(40000),
                              date |-> format(addDays(now, 14))]>>,
     foodBudget        |-> [enabled |-> TRUE,
                            weekdayBreakfast |-> Cents(300), weekdayLunch |-> Cents(800),
                            weekdayDinner |-> Cents(1200), weekdaySnacks |-> Cents(200),
                            weekendDailyTotal |-> Cents(3000)],
     transportConfig   |-> [enabled |-> TRUE, autoEnabled |-> FALSE,
                            autoWeekdayMiles |-> 0, autoWeekendMiles |-> 0,
                            autoMpg |-> 30, autoFuelCostPerGallon |-> Cents(350),
                            publicEnabled |-> TRUE, publicWeeklyCost |-> Cents(2500)]]

budgetTemplates(now) == {StudentTemplate(now)}

\* the fields validateBudgetConfig looks at, with the answer it requires
RequiredShape ==
    [initialBalance |-> "number", projectionMonths |-> "number",
     recurringIncomes |-> "array", oneTimeIncomes |-> "array",
     recurringExpenses |-> "array", oneTimeExpenses |-> "array",
     foodBudget |-> "object", transportConfig |-> "object"]

\* a text JSON.parse throws on
Unparsable == [parses |-> FALSE]

\* the text '{"version": 1}': an object with none of the fields
NotABudget ==
    [parses |-> TRUE,
     typeof |-> [f \in DOMAIN RequiredShape |-> "undefined"],
     value  |-> [version |-> 1]]

\* the text of an exported budget with one monthly bill due on day dom
BudgetFile(dom) ==
    [parses |-> TRUE,
     typeof |-> RequiredShape,
     value  |-> Config(Cents(50000), 1,
                       [NoRules EXCEPT !.recurringExpenses =
                           <<[id |-> 1, label |-> "Rent", amount |-> Cents(80000),
                              dayOfMonth |-> dom]>>],
                       Food(TRUE), TransportPublic)]

\* the text of a budget whose "foodBudget" is null: typeof null is 'object'
NullFoodBudget ==
    [parses |-> TRUE,
     typeof |-> RequiredShape,
     value  |-> [BudgetFile(15).value EXCEPT !.foodBudget = Null]]

JsonTexts == {Unparsable, NotABudget, BudgetFile(15), BudgetFile(31), NullFoodBudget}

validateBudgetConfig(json) ==
    IF ~json.parses
    THEN [success |-> FALSE, error |-> "Invalid JSON file. Could not parse the data."]
    ELSE IF \E f \in DOMAIN RequiredShape : json.typeof[f] # RequiredShape[f]
    THEN [success |-> FALSE, error |-> "Invalid file format. Missing or invalid fields."]
    ELSE [success |-> TRUE]

\* {...e, ...data}
Merge(e, data) ==
    [f \in DOMAIN e \cup DOMAIN data |-> IF f \in DOMAIN data THEN data[f] ELSE e[f]]

\* the Partial<RecurringExpense> values the model passes to updateRecurringExpense
ExpenseEdits == {[dayOfMonth |-> 15], [dayOfMonth |-> 28]}

EngineUnchanged ==
    UNCHANGED <<clock, pc, calls, today, totalDays, i, balance, incomeToday,
                expensesToday, snapshots, firstResult, ticks, memoDeps, fadeVars, glowVars, sampled>>

addRecurringExpense ==
    /\ pc # "loop"
    /\ Len(config.recurringExpenses) < MaxExpenses
    /\ \E id \in Ids \ {config.recurringExpenses[k].id : k \in 1..Len(config.recurringExpenses)} :
          config' = [config EXCEPT !.recurringExpenses =
                        Append(@, [id |-> id, label |-> "New Expense", amount |-> Cents(10000),
                                   dayOfMonth |-> 1, enabled |-> TRUE])]
    /\ hasUserEdits' = TRUE
    /\ EngineUnchanged

updateRecurringExpense ==
    /\ pc # "loop"
    /\ \E id \in Ids : \E data \in ExpenseEdits :
          config' = [config EXCEPT !.recurringExpenses =
                        [k \in 1..Len(@) |-> IF @[k].id = id THEN Merge(@[k], data) ELSE @[k]]]
    /\ hasUserEdits' = TRUE
    /\ EngineUnchanged

applyTemplate ==
    /\ pc # "loop"
    /\ \E template \in budgetTemplates(clock) : config' = template
    /\ hasUserEdits' = FALSE
    /\ EngineUnchanged

importConfig ==
    /\ pc # "loop"
    /\ \E json \in JsonTexts :
          IF validateBudgetConfig(json).success
          THEN /\ config' = [f \in DOMAIN RequiredShape |-> json.value[f]]
               /\ hasUserEdits' = TRUE
          ELSE UNCHANGED <<config, hasUserEdits>>
    /\ EngineUnchanged

resetAll ==
    /\ pc # "loop"
    /\ config' = defaultConfig(clock)
    /\ hasUserEdits' = FALSE
    /\ EngineUnchanged

InitStore ==
    /\ clock \in StartClocks
    /\ config = defaultConfig(clock)
    /\ InitRun

NextStore ==
    \/ addRecurringExpense
    \/ updateRecurringExpense
    \/ applyTemplate
    \/ importConfig
    \/ resetAll
    \/ Invoke
    \/ Step
    \/ Throw
    \/ Return

SpecStore == InitStore /\ [][NextStore]_vars

(***************************************************************************)
(* C19 as stated.  After any sequence of store actions every recurring     *)
(* expense held in the store has dayOfMonth in 1..28, so that the engine   *)
(* never runs with an expense matching day 29, 30 or 31.                   *)
(***************************************************************************)
C19_DayOfMonthCapped ==
    \A k \in 1..Len(config.recurringExpenses) :
        config.recurringExpenses[k].dayOfMonth \in 1..28

(***************************************************************************)
(* findDangerDate (projection.ts:161-165) and findLowestBalance            *)
(* (projection.ts:170-173); their null is Null.                            *)
(***************************************************************************)
RECURSIVE LowestIn(_, _, _, _)
\* the reduce over snaps[lo..hi], best so far given: a range of several
\* elements is reduced as its first half followed by its second half, the
\* accumulator of the first half bound as a value (half) before the second
LowestIn(snaps, lo, hi, best) ==
    IF lo > hi THEN best
    ELSE IF lo = hi
    THEN IF snaps[lo].balance < best.balance THEN snaps[lo] ELSE best
    ELSE LET mid == (lo + hi) \div 2
         IN  CHOOSE r \in {LowestIn(snaps, mid + 1, hi, half) :
                               half \in {LowestIn(snaps, lo, mid, best)}} : TRUE

\* the first snapshot of lowest balance among snaps[k..], best so far given
LowestFrom(snaps, k, best) == LowestIn(snaps, k, Len(snaps), best)

\* variant: the most negative day is returned, not the first negative one
findDangerDate_MostNegative(snaps) ==
    IF snaps = <<>> THEN Null
    ELSE LET low == LowestFrom(snaps, 2, snaps[1])
         IN  IF low.balance < 0 THEN low ELSE Null

RECURSIVE FindIn(_, _, _)
\* the scan of snaps[lo..hi] for the first element with balance < 0: the
\* first half of a range is scanned before its second half
FindIn(snaps, lo, hi) ==
    IF lo > hi THEN Null
    ELSE IF lo = hi
    THEN IF snaps[lo].balance < 0 THEN snaps[lo] ELSE Null
    ELSE LET mid   == (lo + hi) \div 2
             found == FindIn(snaps, lo, mid)
         IN  IF found # Null THEN found ELSE FindIn(snaps, mid + 1, hi)

\* Array.prototype.find with the predicate (s) => s.balance < 0, from index k
Find(snaps, k) == FindIn(snaps, k, Len(snaps))

\* snapshots.find((s) => s.balance < 0) ?? null
findDangerDate(snaps) == Find(snaps, 1)

\* the indexes of the snapshots built so far whose balance is negative
NegativeDays == {k \in 1..Len(snapshots) : snapshots[k].balance < 0}

(***************************************************************************)
(* C20.  findDangerDate returns the snapshot of smallest index whose       *)
(* balance is < 0, and null iff no snapshot of the sequence has a negative *)
(* balance, the empty sequence included (applied to the array under        *)
(* construction in every state, hence to every prefix of a projection).    *)
(***************************************************************************)
C20_EarliestNegativeDay ==
    LET r == findDangerDate(snapshots)
    IN  /\ (r = Null) <=> (NegativeDays = {})
        /\ snapshots = <<>> => r = Null
        /\ NegativeDays # {} =>
              \E k \in NegativeDays :
                  /\ r = snapshots[k]
                  /\ \A j \in NegativeDays : k <= j

\* a returned run whose balance is first negative after some days at or
\* above zero and lower still on a later day: the earlier day is returned
C20_Witness ==
    /\ pc = "done"
    /\ \E k \in NegativeDays :
          /\ k > 1
          /\ \A j \in 1..(k - 1) : snapshots[j].balance >= 0
          /\ \E j \in NegativeDays : snapshots[j].balance < snapshots[k].balance
          /\ findDangerDate(snapshots) = snapshots[k]

(***************************************************************************)
(* findLowestBalance (projection.ts:170-173): null for an empty array,     *)
(* else reduce without initial value, the accumulator starting at the      *)
(* first snapshot and replaced only by a strictly lower one.               *)
(***************************************************************************)
RECURSIVE LowestOrEqualIn(_, _, _, _)
LowestOrEqualIn(snaps, lo, hi, best) ==
    IF lo > hi THEN best
    ELSE IF lo = hi
    THEN IF snaps[lo].balance <= best.balance THEN snaps[lo] ELSE best
    ELSE LET mid == (lo + hi) \div 2
         IN  CHOOSE r \in {LowestOrEqualIn(snaps, mid + 1, hi, half) :
                               half \in {LowestOrEqualIn(snaps, lo, mid, best)}} : TRUE

LowestOrEqualFrom(snaps, k, best) == LowestOrEqualIn(snaps, k, Len(snaps), best)

\* variant: on a tie the later snapshot wins (<= in place of <)
findLowestBalance_LastOnTies(snaps) ==
    IF Len(snaps) = 0 THEN Null ELSE LowestOrEqualFrom(snaps, 2, snaps[1])

findLowestBalance(snaps) ==
    IF Len(snaps) = 0 THEN Null ELSE LowestFrom(snaps, 2, snaps[1])

(***************************************************************************)
(* C21.  findLowestBalance returns a snapshot whose balance is <= that of  *)
(* every snapshot of the sequence, the one of smallest index among those   *)
(* of minimal balance, and null for the empty sequence (applied to the     *)
(* array under construction in every state).                               *)
(***************************************************************************)
C21_FirstLowestDay ==
    LET r == findLowestBalance(snapshots)
    IN  IF snapshots = <<>> THEN r = Null
        ELSE \E k \in 1..Len(snapshots) :
                /\ r = snapshots[k]
                /\ \A j \in 1..Len(snapshots) : snapshots[k].balance <= snapshots[j].balance
                /\ \A j \in 1..(k - 1) : snapshots[j].balance > snapshots[k].balance

\* a returned run whose lowest balance is reached after day 0 and again on
\* a later day: the earlier of the two is returned
C21_Witness ==
    /\ pc = "done"
    /\ \E a \in 2..Len(snapshots) : \E b \in 2..Len(snapshots) :
          /\ a < b
          /\ snapshots[a].balance = snapshots[b].balance
          /\ \A j \in 1..Len(snapshots) : snapshots[a].balance <= snapshots[j].balance
          /\ snapshots[1].balance > snapshots[a].balance
          /\ findLowestBalance(snapshots).date = snapshots[a].date
          /\ \A j \in 1..(a - 1) : snapshots[j].balance > snapshots[a].balance

(***************************************************************************)
(* The store's reorder actions (budgetStore.ts:251-279), as a function of  *)
(* the array: the item at position from is taken out and put back at       *)
(* position to (positions counted from 1, both inside the array).          *)
(***************************************************************************)
Reorder(arr, from, to) ==
    LET item == arr[from]
        rest == SubSeq(arr, 1, from - 1) \o SubSeq(arr, from + 1, Len(arr))
    IN  SubSeq(rest, 1, to - 1) \o <<item>> \o SubSeq(rest, to, Len(rest))

\* cfg after the reorder action of collection coll
Reordered(cfg, coll, from, to) == [cfg EXCEPT ![coll] = Reorder(@, from, to)]

\* a snapshot without its events
Totals(s) ==
    IF s = Null THEN Null
    ELSE [date |-> s.date, balance |-> s.balance,
          incomeToday |-> s.incomeToday, expensesToday |-> s.expensesToday]

\* the events of a day as a set (no two events of a day are equal here)
EventSet(s) == {s.events[e] : e \in 1..Len(s.events)}

(***************************************************************************)
(* C22.  Moving a rule inside any of the four collections leaves the date, *)
(* balance, incomeToday and expensesToday of every snapshot unchanged, and *)
(* with them what findDangerDate and findLowestBalance return; each day    *)
(* keeps the same events, at most in another order.                        *)
(***************************************************************************)
C22_RuleOrderIsDisplayOnly ==
    pc = "done" =>
        \A coll \in Collections :
            \A from \in 1..Len(config[coll]) : \A to \in 1..Len(config[coll]) :
                LET other == runProjection(Reordered(config, coll, from, to), clock)
                IN  /\ Len(other) = Len(snapshots)
                    /\ \A k \in 1..Len(snapshots) :
                          /\ Totals(other[k]) = Totals(snapshots[k])
                          /\ Len(other[k].events) = Len(snapshots[k].events)
                          /\ EventSet(other[k]) = EventSet(snapshots[k])
                    /\ Totals(findDangerDate(other)) = Totals(findDangerDate(snapshots))
                    /\ Totals(findLowestBalance(other)) = Totals(findLowestBalance(snapshots))

\* a returned run in which a move changes the order of a day's events, the
\* day carrying two events of each collection and the balance going negative
C22_Witness ==
    /\ pc = "done"
    /\ findDangerDate(snapshots) # Null
    /\ \E coll \in Collections :
          \E from \in 1..Len(config[coll]) : \E to \in 1..Len(config[coll]) :
              LET other == runProjection(Reordered(config, coll, from, to), clock)
              IN  \E k \in 1..Len(snapshots) :
                      /\ Len(snapshots[k].events) = 8
                      /\ other[k].events # snapshots[k].events

(***************************************************************************)
(* Inputs whose initialBalance is not a finite number.                     *)
(***************************************************************************)
Balances == {NaN, Infinity, NegInfinity, Cents(100000)}

NonFiniteConfigs(t) ==
    {Config(ib, pm, rules, Food(f), TransportPublic) :
        ib \in Balances, pm \in Months, rules \in {NoRules, RichRules(t)}, f \in BOOLEAN}

InitNonFinite ==
    /\ clock \in StartClocks
    /\ config \in NonFiniteConfigs(startOfDay(clock))
    /\ InitRun

SpecNonFinite == InitNonFinite /\ [][Next]_vars

(***************************************************************************)
(* C23 as stated.  A non-finite running balance stops the run at the       *)
(* rounding step: no snapshot is ever pushed, and no array ever returned,  *)
(* in which a balance, incomeToday or expensesToday is NaN or infinite.    *)
(***************************************************************************)
C23_NoNonFiniteSnapshot ==
    \A k \in 1..Len(snapshots) :
        /\ IsFinite(snapshots[k].balance)
        /\ IsFinite(snapshots[k].incomeToday)
        /\ IsFinite(snapshots[k].expensesToday)

RECURSIVE ExactChangeIn(_, _)
\* the sum over the simulated days lo..hi of the unrounded income of the day
\* minus its unrounded expenses, recomputed from the config
ExactChangeIn(lo, hi) ==
    IF lo > hi THEN 0
    ELSE IF lo = hi
    THEN LET acc == DayTotals(config, parseISO(snapshots[lo].date))
         IN  acc.incomeToday - acc.expensesToday
    ELSE ExactChangeIn(lo, (lo + hi) \div 2) + ExactChangeIn((lo + hi) \div 2 + 1, hi)

\* that sum over the first k simulated days
ExactChange(k) == ExactChangeIn(1, k)

RECURSIVE PublishedChangeIn(_, _)
\* the same sum taken on the rounded totals the snapshots publish
PublishedChangeIn(lo, hi) ==
    IF lo > hi THEN 0
    ELSE IF lo = hi THEN snapshots[lo].incomeToday - snapshots[lo].expensesToday
    ELSE PublishedChangeIn(lo, (lo + hi) \div 2) + PublishedChangeIn((lo + hi) \div 2 + 1, hi)

PublishedChange(k) == PublishedChangeIn(1, k)

Abs(x) == IF x < 0 THEN -x ELSE x

(***************************************************************************)
(* C24.  The balance is carried between days unrounded: every published    *)
(* balance is round2 of initialBalance plus the sum, up to that day, of    *)
(* the unrounded income minus the unrounded expenses of each day, hence    *)
(* within half a cent of that exact balance whatever the number of days    *)
(* (checked on the snapshot just appended, in every state).                *)
(***************************************************************************)
C24_BalanceCarriedUnrounded ==
    (pc = "loop" /\ Len(snapshots) >= 1) =>
        LET exact == config.initialBalance + ExactChange(Len(snapshots))
        IN  /\ Last(snapshots).balance = Round2(exact)
            /\ 2 * Abs(Last(snapshots).balance - exact) <= UnitsPerCent

\* after a month of days whose costs are not whole cents, the exact balance
\* is off the cent grid and the sum of the published totals has drifted
\* from the published balance by more than a cent
C24_Witness ==
    /\ pc = "loop"
    /\ Len(snapshots) >= 30
    /\ ~WholeCents(config.initialBalance + ExactChange(Len(snapshots)))
    /\ Abs(config.initialBalance + PublishedChange(Len(snapshots)) - Last(snapshots).balance)
           > UnitsPerCent

(***************************************************************************)
(* The recurring-income form (IncomeForm.tsx): the end dates it offers and *)
(* the number of paychecks it shows.                                       *)
(***************************************************************************)
\* the iteration cap of getValidPayDates
maxIterations == 1000

\* the form's maxDate: format(addMonths(new Date(), projectionMonths))
FormMaxDate(now, projectionMonths) == format(addMonths(now, projectionMonths))

\* the empty string the select uses for "no end date"
NoEndDate == <<>>

\* IncomeForm.tsx:40-64
countPaychecks(startDateStr, endDateStr, frequency) ==
    IF endDateStr = NoEndDate THEN -1
    ELSE LET startDate == parseISO(startDateStr)
             endDate   == parseISO(endDateStr)
             daysDiff  == differenceInCalendarDays(endDate, startDate)
         IN  IF daysDiff < 0 THEN 0
             ELSE CASE frequency = "weekly"   -> (daysDiff \div 7) + 1
                    [] frequency = "biweekly" -> (daysDiff \div 14) + 1
                    [] frequency = "monthly"  ->
                          LET s == format(startDate)
                              e == format(endDate)
                          IN  (e[1] - s[1]) * 12 + (e[2] - s[2]) + 1
                    [] OTHER                  -> 0

\* the switch of getValidPayDates: the date after currentDate
NextPayDate(currentDate, frequency) ==
    CASE frequency = "weekly"   -> addDays(currentDate, 7)
      [] frequency = "biweekly" -> addDays(currentDate, 14)
      [] frequency = "monthly"  -> addMonths(currentDate, 1)
      [] OTHER                  -> currentDate

RECURSIVE PayDatesFrom(_, _, _, _)
\* the while loop of getValidPayDates
PayDatesFrom(currentDate, frequency, maxDate, iteration) ==
    IF ~DateAfter(currentDate, maxDate) /\ iteration < maxIterations
    THEN <<format(currentDate)>>
             \o PayDatesFrom(NextPayDate(currentDate, frequency), frequency,
                             maxDate, iteration + 1)
    ELSE <<>>

\* IncomeForm.tsx:66-94
getValidPayDates(startDateStr, frequency, maxDateStr) ==
    PayDatesFrom(parseISO(startDateStr), frequency, parseISO(maxDateStr), 0)

\* the options of the "Last pay date" select: the valid dates but the first
EndDateOptions(income, now, projectionMonths) ==
    Tail(getValidPayDates(income.startDate, income.frequency,
                          FormMaxDate(now, projectionMonths)))

\* one income of each frequency the form offers, first paid today or later
\* (on the 31st when today is 2024-01-31), with an end date picked from the
\* form's options
FormFrequencies == {"weekly", "biweekly", "monthly"}

FormIncomes(t, pm) ==
    UNION {{WithEndDate(Income(fr, st), EndDateOptions(Income(fr, st), t, pm)[k]) :
               k \in 1..Len(EndDateOptions(Income(fr, st), t, pm))} :
           fr \in FormFrequencies, st \in {Day(t, 0), Day(t, 9)}}

FormConfigs(t) ==
    UNION {{Config(0, pm, [NoRules EXCEPT !.recurringIncomes = <<inc>>],
                   Food(FALSE), TransportOff) : inc \in FormIncomes(t, pm)} :
           pm \in Months}

InitForm ==
    /\ clock \in StartClocks
    /\ config \in FormConfigs(clock)
    /\ InitRun

SpecForm == InitForm /\ [][Next]_vars

(***************************************************************************)
(* C25 as stated.  For an income first paid today or later whose end date  *)
(* is one of the dates the form offers, the number countPaychecks shows is *)
(* the number of paycheck events of the finished run, and every date the   *)
(* form offers is a payday of the engine.                                  *)
(***************************************************************************)
C25_FormAgreesWithEngine ==
    pc = "done" =>
        LET income == config.recurringIncomes[1]
            dates  == getValidPayDates(income.startDate, income.frequency,
                                       FormMaxDate(clock, config.projectionMonths))
        IN  /\ countPaychecks(income.startDate, income.endDate, income.frequency)
                   = Cardinality(PaycheckDays(income))
            /\ \A k \in 1..Len(dates) :
                   isPayday(parseISO(dates[k]), WithEndDate(income, dates[k]))

(***************************************************************************)
(* useProjection (useProjection.ts:7-23).  The hook reads the config from  *)
(* the store and keeps runProjection(config) in a useMemo whose only       *)
(* dependency is the config: a render recomputes the snapshots when the    *)
(* config differs from the one of the last computation and returns the     *)
(* kept array otherwise.  Two configs are compared by value.               *)
(***************************************************************************)
\* budgetStore.ts:134; an edit is made only while a run remains in the bound
setInitialBalance ==
    /\ pc # "loop"
    /\ calls < MaxCalls
    /\ \E amount \in {0, Cents(100000)} :
          config' = [config EXCEPT !.initialBalance = amount]
    /\ hasUserEdits' = TRUE
    /\ EngineUnchanged

\* a render of a component that calls useProjection
useProjection ==
    /\ pc \in {"idle", "done"}
    /\ IF memoDeps = config
       THEN UNCHANGED vars
       ELSE /\ RunEntry
            /\ memoDeps' = config

InitHook ==
    /\ clock \in StartClocks
    /\ config \in ClockConfigs(startOfDay(clock))
    /\ InitRun

NextHook == setInitialBalance \/ Tick \/ useProjection \/ Step \/ Return

SpecHook == InitHook /\ [][NextHook]_vars

(***************************************************************************)
(* C26 as stated.  The snapshots useProjection holds for the current       *)
(* config start at the current calendar day, whatever store edits and      *)
(* clock advances came before: the memoised result is never stale.         *)
(***************************************************************************)
C26_MemoNeverStale ==
    (pc = "done" /\ memoDeps = config) => snapshots[1].date = format(clock)

(***************************************************************************)
(* C27 as stated.  Whatever importConfig has accepted and installed, the   *)
(* store's foodBudget and transportConfig are non-null objects, and a run  *)
(* of the engine on the store's config never fails reading a field.       *)
(***************************************************************************)
C27_ImportedConfigIsReadable ==
    /\ config.foodBudget # Null
    /\ config.transportConfig # Null
    /\ pc # "threw"

(***************************************************************************)
(* useChartFadeTransition (useProjection.ts:53-79).  The effect has the    *)
(* one dependency dataLength: it runs after a render whose dataLength      *)
(* differs from the one before, the cleanup of its previous run first.     *)
(* Time is abstracted: a pending timeout may fire at any moment, which     *)
(* covers a change arriving before or after CHART_FADE_OUT_DELAY.          *)
(***************************************************************************)
MaxChanges == 4

\* the lengths of the data handed to a chart
DataLengths == {32, 61, 92, 183}

\* variant: the effect returns no cleanup, a pending timeout is never cleared
FadeRender_NoCleanup ==
    /\ mounted
    /\ lengthChanges < MaxChanges
    /\ \E len \in DataLengths \ {dataLength} :
          /\ dataLength' = len
          /\ IF len # prevLengthRef
             THEN /\ prevLengthRef' = len
                  /\ fading' = TRUE
                  /\ fadeTimers' = fadeTimers + 1
             ELSE UNCHANGED <<prevLengthRef, fading, fadeTimers>>
    /\ lengthChanges' = lengthChanges + 1
    /\ UNCHANGED <<chartKey, mounted>>
    /\ UNCHANGED <<clock, config, pc, calls, today, totalDays, i, balance, incomeToday,
                   expensesToday, snapshots, firstResult, ticks, hasUserEdits,
                   memoDeps, glowVars, sampled>>

\* lines 65-76: a render with another dataLength, and the effect after it:
\* the cleanup of the previous run (clearTimeout), then the body
FadeRender ==
    /\ mounted
    /\ lengthChanges < MaxChanges
    /\ \E len \in DataLengths \ {dataLength} :
          /\ dataLength' = len
          /\ IF len # prevLengthRef
             THEN /\ prevLengthRef' = len
                  /\ fading' = TRUE
                  /\ fadeTimers' = 1
             ELSE /\ fadeTimers' = 0
                  /\ UNCHANGED <<prevLengthRef, fading>>
    /\ lengthChanges' = lengthChanges + 1
    /\ UNCHANGED <<chartKey, mounted>>
    /\ UNCHANGED <<clock, config, pc, calls, today, totalDays, i, balance, incomeToday,
                   expensesToday, snapshots, firstResult, ticks, hasUserEdits,
                   memoDeps, glowVars, sampled>>

\* lines 70-73: the timeout fires
FadeTimeout ==
    /\ mounted
    /\ fadeTimers > 0
    /\ chartKey' = chartKey + 1
    /\ fading' = FALSE
    /\ fadeTimers' = fadeTimers - 1
    /\ UNCHANGED <<dataLength, prevLengthRef, mounted, lengthChanges>>
    /\ UNCHANGED <<clock, config, pc, calls, today, totalDays, i, balance, incomeToday,
                   expensesToday, snapshots, firstResult, ticks, hasUserEdits,
                   memoDeps, glowVars, sampled>>

\* line 74: the component unmounts, the cleanup of the last run clears its
\* timeout
FadeUnmount ==
    /\ mounted
    /\ mounted' = FALSE
    /\ fadeTimers' = 0
    /\ UNCHANGED <<dataLength, prevLengthRef, fading, chartKey, lengthChanges>>
    /\ UNCHANGED <<clock, config, pc, calls, today, totalDays, i, balance, incomeToday,
                   expensesToday, snapshots, firstResult, ticks, hasUserEdits,
                   memoDeps, glowVars, sampled>>

\* the wall clock and the store while only a chart hook is observed
HookClock == [day |-> ToDayNum(<<2024, 3, 15>>), hour |-> 9]

InitFade ==
    /\ clock = HookClock
    /\ config = defaultConfig(clock)
    /\ InitEngine
    /\ ChartAtRest
    /\ MemoAtRest
    /\ GlowMounted("0,100", FALSE)
    /\ \E len \in DataLengths : FadeMounted(len)

NextFade == FadeRender \/ FadeTimeout \/ FadeUnmount

SpecFade == InitFade /\ [][NextFade]_vars

\* the event loop runs a pending timeout
SpecFadeLive == SpecFade /\ WF_vars(FadeTimeout)

\* while mounted, the chart is fading exactly while one timeout is pending;
\* chartKey counts no more fades than there were length changes
FadeShape ==
    /\ fadeTimers \in {0, 1}
    /\ mounted => (fading <=> fadeTimers = 1)
    /\ chartKey <= lengthChanges
    /\ prevLengthRef = dataLength

\* a length change starts the fade on one fresh timeout; chartKey moves only
\* by one, at the end of a fade, with the length unchanged
FadeStep ==
    /\ dataLength' # dataLength => (fading' /\ fadeTimers' = 1 /\ chartKey' = chartKey)
    /\ chartKey' >= chartKey
    /\ chartKey' # chartKey =>
          /\ chartKey' = chartKey + 1
          /\ dataLength' = dataLength
          /\ fading /\ ~fading'
          /\ fadeTimers' = 0

(***************************************************************************)
(* C28.  useChartFadeTransition: every change of dataLength sets fading    *)
(* and leaves exactly one pending timeout (that of an earlier change is    *)
(* cancelled); chartKey never decreases and changes only when a timeout    *)
(* fires, with dataLength unchanged, by exactly one, fading returning to   *)
(* false; and while the component stays mounted a fade always ends.        *)
(***************************************************************************)
C28_FadeSettlesOnce ==
    /\ []FadeShape
    /\ [][FadeStep]_vars
    /\ (fading ~> (~fading \/ ~mounted))

\* two length changes in a row, the first one's timeout cancelled, and the
\* fade settled with a single increment of chartKey
C28_Witness ==
    /\ mounted
    /\ lengthChanges = 2
    /\ chartKey = 1
    /\ ~fading

(***************************************************************************)
(* useYAxisGlow (useYAxisGlow.ts:14-60).  The effect depends on            *)
(* domainFingerprint and disabled.  requestAnimationFrame callbacks and    *)
(* timeouts are pending tasks the browser runs one at a time, in any order *)
(* relative to the renders; a callback once requested cannot be cancelled  *)
(* by the hook, which keeps no handle of it.  A timeout is known by its    *)
(* id; timerRef.current holds the id of the last one armed (0: none).      *)
(***************************************************************************)
Fingerprints == {"0,100", "0,200", "-100,100"}

\* clearTimeout(timerRef.current), a no-op on an id that has fired
ClearTimerRef == glowTimers \ {timerRef}

\* the id setTimeout returns: one that no pending timeout has
FreshTimer == CHOOSE id \in 1..(Cardinality(glowTimers) + 1) : id \notin glowTimers

EngineAndFadeUnchanged ==
    UNCHANGED <<clock, config, pc, calls, today, totalDays, i, balance, incomeToday,
                expensesToday, snapshots, firstResult, ticks, hasUserEdits,
                memoDeps, fadeVars, sampled>>

\* lines 20-50: a render with other props (or the first one), and the effect
\* after it
GlowEffect ==
    /\ glowMounted
    /\ \E fp \in Fingerprints, dis \in BOOLEAN :
          /\ isFirstRender \/ <<fp, dis>> # <<domainFingerprint, disabled>>
          /\ fp # domainFingerprint => domainChanges < MaxChanges
          /\ domainFingerprint' = fp
          /\ disabled' = dis
          /\ domainChanges' = IF fp # domainFingerprint THEN domainChanges + 1
                              ELSE domainChanges
          /\ IF isFirstRender
             THEN /\ isFirstRender' = FALSE
                  /\ prevRef' = fp
                  /\ UNCHANGED <<glowing, glowTimers, outerFrames, lastChange>>
             ELSE IF fp # prevRef
             THEN /\ prevRef' = fp
                  /\ glowing' = FALSE
                  /\ glowTimers' = ClearTimerRef
                  /\ outerFrames' = IF dis THEN outerFrames ELSE outerFrames + 1
                  /\ lastChange' = IF dis THEN "disabled" ELSE "enabled"
                  /\ UNCHANGED isFirstRender
             ELSE UNCHANGED <<isFirstRender, prevRef, glowing, glowTimers,
                              outerFrames, lastChange>>
    /\ UNCHANGED <<timerRef, innerFrames, glowMounted>>
    /\ EngineAndFadeUnchanged

\* line 43: the outer animation frame callback runs and requests the inner one
OuterFrame ==
    /\ outerFrames > 0
    /\ outerFrames' = outerFrames - 1
    /\ innerFrames' = innerFrames + 1
    /\ UNCHANGED <<domainFingerprint, disabled, glowing, prevRef, isFirstRender,
                   timerRef, glowTimers, lastChange, glowMounted, domainChanges>>
    /\ EngineAndFadeUnchanged

\* lines 44-47: the inner animation frame callback runs
InnerFrame ==
    /\ innerFrames > 0
    /\ innerFrames' = innerFrames - 1
    /\ glowing' = IF glowMounted THEN TRUE ELSE glowing
    /\ timerRef' = FreshTimer
    /\ glowTimers' = glowTimers \cup {FreshTimer}
    /\ UNCHANGED <<domainFingerprint, disabled, prevRef, isFirstRender, outerFrames,
                   lastChange, glowMounted, domainChanges>>
    /\ EngineAndFadeUnchanged

\* line 46: a timeout fires after GLOW_DURATION_MS
GlowTimeout ==
    /\ \E id \in glowTimers :
          /\ glowTimers' = glowTimers \ {id}
          /\ glowing' = IF glowMounted THEN FALSE ELSE glowing
    /\ UNCHANGED <<domainFingerprint, disabled, prevRef, isFirstRender, timerRef,
                   outerFrames, innerFrames, lastChange, glowMounted, domainChanges>>
    /\ EngineAndFadeUnchanged

\* lines 53-57: the cleanup on unmount
GlowUnmount ==
    /\ glowMounted
    /\ glowMounted' = FALSE
    /\ glowTimers' = ClearTimerRef
    /\ UNCHANGED <<domainFingerprint, disabled, glowing, prevRef, isFirstRender,
                   timerRef, outerFrames, innerFrames, lastChange, domainChanges>>
    /\ EngineAndFadeUnchanged

InitGlow ==
    /\ clock = HookClock
    /\ config = defaultConfig(clock)
    /\ InitEngine
    /\ ChartAtRest
    /\ MemoAtRest
    /\ FadeMounted(0)
    /\ \E fp \in Fingerprints, dis \in BOOLEAN : GlowMounted(fp, dis)

NextGlow == GlowEffect \/ OuterFrame \/ InnerFrame \/ GlowTimeout \/ GlowUnmount

SpecGlow == InitGlow /\ [][NextGlow]_vars

\* the browser runs every pending frame callback and timeout
SpecGlowLive ==
    SpecGlow /\ WF_vars(OuterFrame) /\ WF_vars(InnerFrame) /\ WF_vars(GlowTimeout)

\* a glow always ends
GlowEnds == glowing ~> (~glowing \/ ~glowMounted)

(***************************************************************************)
(* C29 as stated (its safety part).  Once a domain change has been         *)
(* processed with disabled true, glowing is false and stays false until a  *)
(* domain change is processed with disabled false, whatever animation      *)
(* frame callbacks and timeouts are pending.                               *)
(***************************************************************************)
C29_SilentChangeStaysDark ==
    (glowMounted /\ lastChange = "disabled") => ~glowing

(***************************************************************************)
(* CashBalanceChart (CashBalanceChart.tsx:108-162): the series it draws.   *)
(* JavaScript indexes data from 0; data[idx] is snapshots[idx + 1] here.   *)
(***************************************************************************)
MAX_SAMPLE_POINTS == 180

\* lines 116-119: mi moves to i only on a strictly lower balance, so the loop
\* ends on the first index of lowest balance
MinIdxOf(snaps) ==
    CHOOSE mi \in 0..(Len(snaps) - 1) :
        /\ \A j \in 0..(Len(snaps) - 1) : snaps[mi + 1].balance <= snaps[j + 1].balance
        /\ \A j \in 0..(mi - 1) : snaps[j + 1].balance > snaps[mi + 1].balance

\* lines 116-120: ma, likewise the first index of highest balance
MaxIdxOf(snaps) ==
    CHOOSE ma \in 0..(Len(snaps) - 1) :
        /\ \A j \in 0..(Len(snaps) - 1) : snaps[ma + 1].balance >= snaps[j + 1].balance
        /\ \A j \in 0..(ma - 1) : snaps[j + 1].balance < snaps[ma + 1].balance

\* lines 114-122
MinMaxIdx(snaps) ==
    IF Len(snaps) = 0 THEN [minIdx |-> 0, maxIdx |-> 0]
    ELSE [minIdx |-> MinIdxOf(snaps), maxIdx |-> MaxIdxOf(snaps)]

\* lines 51-59
prepareChartData(snaps, minIdx, maxIdx) ==
    [k \in 1..Len(snaps) |->
        [date |-> snaps[k].date, balance |-> snaps[k].balance, events |-> snaps[k].events,
         isMin |-> (k - 1 = minIdx), isMax |-> (k - 1 = maxIdx)]]

\* Math.max(2, Math.floor(data.length / MAX_SAMPLE_POINTS))
SampleStep(len) == IF len \div MAX_SAMPLE_POINTS > 2 THEN len \div MAX_SAMPLE_POINTS ELSE 2

\* lines 138-155: the indices put into the Set
Included(data, minIdx, maxIdx) ==
    {idx \in 0..(Len(data) - 1) : Len(data[idx + 1].events) > 0}
    \cup {minIdx, maxIdx}
    \cup {idx \in 0..(Len(data) - 1) : idx % SampleStep(Len(data)) = 0}
    \cup {0, Len(data) - 1}

\* lines 157-161: the points of the included indices that data has, in
\* ascending order of index
PointsOf(data, included) ==
    LET valid == {idx \in included : idx \in 0..(Len(data) - 1)}
        nth(k) == CHOOSE idx \in valid : Cardinality({j \in valid : j < idx}) = k - 1
    IN  [k \in 1..Cardinality(valid) |-> data[nth(k) + 1]]

\* lines 131-162
Sampled(data, minIdx, maxIdx) ==
    IF Len(data) <= MAX_SAMPLE_POINTS THEN data
    ELSE PointsOf(data, Included(data, minIdx, maxIdx))

\* a render of the chart on the snapshots of a finished run
CashBalanceChart ==
    /\ pc = "done"
    /\ LET mm   == MinMaxIdx(snapshots)
           data == prepareChartData(snapshots, mm.minIdx, mm.maxIdx)
       IN  sampled' = Sampled(data, mm.minIdx, mm.maxIdx)
    /\ UNCHANGED <<clock, config, pc, calls, today, totalDays, i, balance, incomeToday,
                   expensesToday, snapshots, firstResult, ticks, hasUserEdits,
                   memoDeps, fadeVars, glowVars>>

\* projections of one month (drawn whole), of half a year and of a year, with
\* no rules and with the store's default budget
ChartConfigs(t) ==
    {Config(Cents(100000), pm, NoRules, Food(TRUE), TransportPublic) : pm \in {1, 6, 12}}
    \cup {[defaultConfig(t) EXCEPT !.projectionMonths = pm] : pm \in {1, 6, 12}}

InitChart ==
    /\ clock \in StartClocks
    /\ config \in ChartConfigs(clock)
    /\ InitRun

NextChart == Invoke \/ Step \/ Return \/ CashBalanceChart

SpecChart == InitChart /\ [][NextChart]_vars

(***************************************************************************)
(* C30 as stated.  The series handed to the balance chart never has more   *)
(* than MAX_SAMPLE_POINTS points.                                          *)
(***************************************************************************)
C30_AtMostMaxSamplePoints ==
    sampled # Null => Len(sampled) <= MAX_SAMPLE_POINTS

====
